---- MODULE Spec2Model ----
(***************************************************************************)
(* Model of the answer-resolution pipeline of RegulAIte:                   *)
(*   rag/pipeline.py        ask, _responses_try_file_search, helpers       *)
(*   rag/foundry_client.py  ask_foundry_agent                              *)
(*   rag/schema.py          RegulAIteAnswer, DEFAULT_EMPTY                 *)
(*                                                                         *)
(* Text is a sequence of tokens.  A token is a string naming a class of    *)
(* characters: "sp" (blank), "nl" (line feed), "bsn" (the two characters   *)
(* backslash n), "fence" (three backticks), a word (letters, digits, _ -), *)
(* or a brace span (the names in JsonTokens): the text from the first "{"   *)
(* to the last "}", which is what re.search(r"\{.*\}", DOTALL) matches, so  *)
(* a text holds at most one.                                               *)
(***************************************************************************)
EXTENDS Integers, Sequences, FiniteSets, TLC

\* ------------------------------------------------------------------ values

\* Python values that are a str, None, or something else (a JSON array).
Str(s) == [k |-> "str", s |-> s]
None == [k |-> "none", s |-> <<>>]
Arr(s) == [k |-> "list", s |-> s]

\* Python truthiness of such a value: None, "" and [] are falsy.
Truthy(v) == v.k # "none" /\ v.s # <<>>

\* `v or ""` for a value that is a str or None.
OrEmpty(v) == IF v.k = "str" THEN v.s ELSE <<>>

\* ------------------------------------------------------------------ text

IsSpace(t) == t \in {"sp", "nl"}

IsWord(t) == t \in {"CM5", "json", "id", "ans", "alt"}

RECURSIVE LStrip(_)
LStrip(s) == IF s # <<>> /\ IsSpace(Head(s)) THEN LStrip(Tail(s)) ELSE s

RECURSIVE RStrip(_)
RStrip(s) ==
    IF s # <<>> /\ IsSpace(s[Len(s)]) THEN RStrip(SubSeq(s, 1, Len(s) - 1)) ELSE s

\* str.strip()
Strip(s) == RStrip(LStrip(s))

RECURSIVE DropWord(_)
DropWord(s) == IF s # <<>> /\ IsWord(Head(s)) THEN DropWord(Tail(s)) ELSE s

\* re.sub(r"^```[a-zA-Z0-9_-]*\s*", "", s) then re.sub(r"\s*```$", "", s)
StripCodeFences(s) ==
    LET s1 == Strip(s) IN
    IF s1 # <<>> /\ Head(s1) = "fence"
    THEN LET a == LStrip(DropWord(Tail(s1)))
             b == IF a # <<>> /\ a[Len(a)] = "fence"
                  THEN RStrip(SubSeq(a, 1, Len(a) - 1))
                  ELSE a
         IN Strip(b)
    ELSE Strip(s1)

Contains(s, t) == \E i \in 1..Len(s) : s[i] = t

RECURSIVE Replace(_, _, _)
Replace(s, old, new) ==
    IF s = <<>> THEN <<>>
    ELSE <<(IF Head(s) = old THEN new ELSE Head(s))>> \o Replace(Tail(s), old, new)

\* _unescape_field on a str (the caller handles the non-str pass-through)
UnescapeText(s) ==
    LET v == IF Contains(s, "bsn") /\ ~Contains(s, "nl")
             THEN Replace(s, "bsn", "nl") ELSE s
    IN Strip(StripCodeFences(v))

\* _unescape_field: a non-str value is returned as it is
UnescapeField(v) == IF v.k # "str" THEN v ELSE Str(UnescapeText(v.s))

\* ------------------------------------------------------------------ JSON

\* The brace spans the backends are taken to answer with, by what json.loads
\* makes of them:
\*   J_ok        {"raw_markdown": "ans"}
\*   J_ok_fu     {"raw_markdown": "ans", "follow_up_suggestions": ["alt"]}
\*   J_nomd      {"summary": "ans"}
\*   J_blankmd   {"raw_markdown": " "}
\*   J_badps     {"raw_markdown": "ans\\nalt", "per_source": {"Basel": {}}}
\*   J_badps0    {"per_source": {"Basel": {}}}
\*   J_nullfu    {"raw_markdown": "ans", "follow_up_suggestions": null}
\*   J_listmd    {"raw_markdown": ["ans"]}
\*   J_nolistmd  {"raw_markdown": [], "summary": 5}
\*   J_empty     {}
\*   J_comma     {"raw_markdown": "ans",}
\*   J_cut       {"raw_markdown": "ans\nalt", "summary": oops}
\*   J_text      {see CM5}
JsonTokens ==
    {"J_ok", "J_ok_fu", "J_nomd", "J_blankmd", "J_badps", "J_badps0", "J_nullfu",
     "J_listmd", "J_nolistmd", "J_empty", "J_comma", "J_cut", "J_text"}

\* A decoded JSON object: the keys it has and the values of the keys the
\* schema knows.  per_source and summary are "valid" or "invalid" by type.
Dict(keys, md, fus, ps, summary) ==
    [keys |-> keys, raw_markdown |-> md, follow_up_suggestions |-> fus,
     per_source |-> ps, summary |-> summary]

EmptyDict == Dict({}, None, None, "valid", "valid")

\* json.loads(raw): the object, or NoParse when it raises
NoParse == Dict({"<error>"}, None, None, "valid", "valid")

JsonLoads(tok) ==
    CASE tok = "J_ok" -> Dict({"raw_markdown"}, Str(<<"ans">>), None, "valid", "valid")
      [] tok = "J_ok_fu" ->
            Dict({"raw_markdown", "follow_up_suggestions"}, Str(<<"ans">>),
                 Arr(<< <<"alt">> >>), "valid", "valid")
      [] tok = "J_nomd" -> Dict({"summary"}, None, None, "valid", "valid")
      [] tok = "J_blankmd" -> Dict({"raw_markdown"}, Str(<<"sp">>), None, "valid", "valid")
      [] tok = "J_badps" ->
            Dict({"raw_markdown", "per_source"}, Str(<<"ans", "bsn", "alt">>), None,
                 "invalid", "valid")
      [] tok = "J_badps0" -> Dict({"per_source"}, None, None, "invalid", "valid")
      [] tok = "J_nullfu" ->
            Dict({"raw_markdown", "follow_up_suggestions"}, Str(<<"ans">>), None,
                 "valid", "valid")
      [] tok = "J_listmd" -> Dict({"raw_markdown"}, Arr(<<"ans">>), None, "valid", "valid")
      [] tok = "J_nolistmd" ->
            Dict({"raw_markdown", "summary"}, Arr(<<>>), None, "valid", "invalid")
      [] tok = "J_empty" -> EmptyDict
      [] OTHER -> NoParse

\* json.loads of the span with re.sub(r",\s*}", "}") and re.sub(r",\s*]", "]") applied
JsonLoadsRepaired(tok) ==
    IF tok = "J_comma"
    THEN Dict({"raw_markdown"}, Str(<<"ans">>), None, "valid", "valid")
    ELSE NoParse

\* re.search(r'"raw_markdown"\s*:\s*"(.*)"\s*(,|\})', raw): group 1 after the three
\* replace() calls, which rewrite backslash-backslash-n and leave backslash-n alone
RawMarkdownRegex(tok) ==
    IF tok = "J_cut"
    THEN Dict({"raw_markdown"}, Str(<<"ans", "bsn", "alt">>), None, "valid", "valid")
    ELSE EmptyDict

BraceAt(t) == {i \in 1..Len(t) : t[i] \in JsonTokens}

\* _parse_json
ParseJson(text) ==
    IF text = <<>> THEN EmptyDict
    ELSE LET t == StripCodeFences(text) IN
         IF BraceAt(t) = {} THEN EmptyDict
         ELSE LET raw == t[CHOOSE i \in BraceAt(t) : TRUE] IN
              IF JsonLoads(raw).keys # NoParse.keys THEN JsonLoads(raw)
              ELSE IF JsonLoadsRepaired(raw).keys # NoParse.keys
                   THEN JsonLoadsRepaired(raw)
              ELSE RawMarkdownRegex(raw)

\* dict.get
Get(d, key) == IF key \in d.keys THEN d[key] ELSE None

\* ------------------------------------------------------------------ schema

\* RegulAIteAnswer: the fields the pipeline reads or writes.  per_source is
\* "none" (the empty default) or "some".
Answer(md, summary, ps, fus) ==
    [raw_markdown |-> md, summary |-> summary, per_source |-> ps,
     follow_up_suggestions |-> fus]

\* RegulAIteAnswer(raw_markdown=md): every other field at its default
OnlyMarkdown(md) == Answer(md, <<>>, "none", <<>>)

\* pydantic accepts the object: raw_markdown Optional[str], follow_up_suggestions
\* List[str], per_source Dict[RegSource, PerSourceAnswer], summary str
Validates(d) ==
    /\ "raw_markdown" \in d.keys => d.raw_markdown.k \in {"str", "none"}
    /\ "follow_up_suggestions" \in d.keys => d.follow_up_suggestions.k = "list"
    /\ "per_source" \in d.keys => d.per_source = "valid"
    /\ "summary" \in d.keys => d.summary = "valid"

\* RegulAIteAnswer(**data) for an object that validates
FromDict(d) ==
    Answer(Get(d, "raw_markdown"),
           IF "summary" \in d.keys THEN <<"ans">> ELSE <<>>,
           IF "per_source" \in d.keys THEN "some" ELSE "none",
           IF "follow_up_suggestions" \in d.keys THEN d.follow_up_suggestions.s ELSE <<>>)

\* (ans.raw_markdown or "").strip()
MarkdownOf(ans) == Strip(OrEmpty(ans.raw_markdown))

\* `_unescape_field(md) or ""` where md is `data.get("raw_markdown") or ""`
RecoveredMarkdown(d) ==
    LET md == IF Truthy(Get(d, "raw_markdown")) THEN Get(d, "raw_markdown") ELSE Str(<<>>)
        u == UnescapeField(md)
    IN IF Truthy(u) THEN u ELSE Str(<<>>)

\* The answer made of a backend's text (pipeline.py 179-187, 232-240, 373-382):
\* [raised |-> TRUE] when the constructor in the except branch raises
\* ValidationError itself.  `plain` is the text the no-JSON branch starts from.
Made(ans) == [raised |-> FALSE, ans |-> ans]

Raised == [raised |-> TRUE, ans |-> OnlyMarkdown(None)]

Normalize(text, plain) ==
    LET data == ParseJson(text) IN
    IF data.keys # {}
    THEN IF Validates(data) THEN Made(FromDict(data))
         ELSE IF RecoveredMarkdown(data).k = "str"
              THEN Made(OnlyMarkdown(RecoveredMarkdown(data)))
              ELSE Raised
    ELSE LET u == UnescapeText(plain) IN Made(OnlyMarkdown(Str(u)))

\* ------------------------------------------------------------------ helpers of ask

\* str.lower() on the tokens that have an upper-case letter
LowerToken(t) ==
    CASE t = "Detailed" -> "detailed"
      [] t = "Short" -> "short"
      [] OTHER -> t

Lower(s) == [i \in 1..Len(s) |-> LowerToken(s[i])]

\* normalize_mode: the hint stripped and lower-cased, against the alias sets
NormalizeMode(hint) ==
    LET m == IF Truthy(hint) THEN Lower(Strip(hint.s)) ELSE <<"auto">> IN
    IF m \in {<<"short">>, <<"concise">>} THEN "short"
    ELSE IF m \in {<<"long">>, <<"detailed">>} THEN "long"
    ELSE IF m \in {<<"research">>, <<"deep">>} THEN "research"
    ELSE "auto"

TokensShort == 900
TokensLong == 2600
TokensResearch == 3600
TokensDefault == 2200

\* _mode_tokens
ModeTokens(mode) ==
    CASE mode = "short" -> TokensShort
      [] mode = "long" -> TokensLong
      [] mode = "research" -> TokensResearch
      [] OTHER -> TokensDefault

MaxPairs == 8
AssistantChars == 700

\* s[:n]
Prefix(s, n) == SubSeq(s, 1, IF Len(s) < n THEN Len(s) ELSE n)

\* s[-n:]
Suffix(s, n) == SubSeq(s, (IF Len(s) < n THEN 0 ELSE Len(s) - n) + 1, Len(s))

RECURSIVE BriefLines(_)
BriefLines(turns) ==
    IF turns = <<>> THEN <<>>
    ELSE LET h == Head(turns)
             content == Strip(h.content)
             line == IF h.role = "user" THEN <<"User: ">> \o content
                     ELSE <<"Assistant: ">> \o Prefix(content, AssistantChars)
         IN IF content = <<>> THEN BriefLines(Tail(turns))
            ELSE <<line>> \o BriefLines(Tail(turns))

RECURSIVE JoinLines(_, _)
JoinLines(lines, sep) ==
    IF lines = <<>> THEN <<>>
    ELSE IF Len(lines) = 1 THEN lines[1]
    ELSE lines[1] \o sep \o JoinLines(Tail(lines), sep)

\* _history_to_brief
HistoryToBrief(history) ==
    IF history = <<>> THEN <<>>
    ELSE JoinLines(BriefLines(Suffix(history, MaxPairs * 2)), <<"nl">>)

\* _detect_intent: the phrase tokens stand for the phrases of the key lists
ReturnOnly(q) == Contains(q, "return only") \/ Contains(q, "nothing else")

QuoteOnly(q) == Contains(q, "verbatim")

ListIds(q) == Contains(q, "ids present")

BisOnly(q) == Contains(q, "bis.org") /\ ReturnOnly(q)

Scenario(q) == Contains(q, "scenario")

Concise(q) == ReturnOnly(q) \/ QuoteOnly(q) \/ ListIds(q) \/ BisOnly(q)

\* The six f-strings of pipeline.py 249-256, 312-319, 389-396
Templates ==
    << <<"What approval thresholds and board oversight apply to ", "?">>,
       <<"Draft a closure checklist for ", " with controls and required evidence.">>,
       <<"What fields belong in the monthly board pack for ", "?">>,
       <<"How should breaches/exceptions for ", " be escalated and documented?">>,
       <<"What stress-test scenarios are relevant for ", " and how to calibrate them?">>,
       <<"What are the key risks, controls, and KRIs for ", " (with metrics)?">> >>

\* topic = (query or "this topic").strip()
Topic(query) == Strip(IF query # <<>> THEN query ELSE <<"this topic">>)

FollowUps(query) ==
    [i \in 1..Len(Templates) |-> <<Templates[i][1]>> \o Topic(query) \o <<Templates[i][2]>>]

\* A variant that writes the six suggestions over whatever the answer carries
WithFollowUpsAlways(ans, query) ==
    [ans EXCEPT !.follow_up_suggestions = FollowUps(query)]

\* `if not ans.follow_up_suggestions: ans.follow_up_suggestions = [...]`
WithFollowUps(ans, query) ==
    IF ans.follow_up_suggestions = <<>>
    THEN [ans EXCEPT !.follow_up_suggestions = FollowUps(query)]
    ELSE ans

WeakLength == 400

\* _weak (pipeline.py 90-95), with the length counted in tokens; ask never calls it
Weak(ans, q) ==
    \/ Len(Lower(OrEmpty(ans.raw_markdown))) < WeakLength
    \/ /\ Contains(Lower(OrEmpty(ans.raw_markdown)), "not found")
       /\ \E k \in {"cbb", "rulebook", "cm5"} : Contains(Lower(q), k)
    \/ ans.per_source = "none"

\* ------------------------------------------------------------------ settings

\* (os.getenv(name) or "").strip()
Setting(v) == Strip(OrEmpty(v))

\* os.getenv("USE_AZURE_FOUNDRY", "1").strip().lower() not in {"0", "false", "no"}
FoundryAllowed(use) ==
    Lower(Strip(IF use.k = "none" THEN <<"1">> ELSE use.s)) \notin {<<"0">>, <<"false">>, <<"no">>}

\* foundry_enabled (pipeline.py 211)
FoundryEnabled(ep, agent, use) ==
    Setting(ep) # <<>> /\ Setting(agent) # <<>> /\ FoundryAllowed(use)

\* a or b, for two str-or-None values
Or(a, b) == IF Truthy(a) THEN a ELSE b

\* chat_model (pipeline.py 261)
ChatModel(arg, envChat, envResponses) ==
    Strip(Or(arg, Or(envChat, Or(envResponses, Str(<<"gpt-4o-mini">>)))).s)

\* vector_store_id (pipeline.py 262): <<>> stands for None
VectorStoreId(vec_id, envVs) == Strip(OrEmpty(Or(vec_id, Or(envVs, Str(<<>>)))))

\* endpoint of ask_foundry_agent: .strip().rstrip("/")
RECURSIVE RStripSlash(_)
RStripSlash(s) ==
    IF s # <<>> /\ s[Len(s)] = "/" THEN RStripSlash(SubSeq(s, 1, Len(s) - 1)) ELSE s

Endpoint(ep) == RStripSlash(Strip(ep))

\* ------------------------------------------------------------------ inputs

\* Clock readings before the deadline of the poll loop (timeout_s over poll_s)
TimeoutTicks == 3

Queries ==
    { <<"sp", "CM5">>,
      <<"return only", "sp", "CM5">>,
      <<"scenario", "sp", "CM5">>,
      <<>> }

Histories ==
    { <<>>,
      << [role |-> "user", content |-> <<"CM5">>],
         [role |-> "assistant", content |-> <<"ans", "nl">>] >> }

ModeHints == {Str(<<"Detailed", "sp">>)}

\* What an environment variable or an optional argument can hold
Unset == {None, Str(<<>>), Str(<<"sp">>)}

EndpointValues == Unset \cup {Str(<<"id", "/">>), Str(<<"/">>)}
AgentValues == Unset \cup {Str(<<"id">>)}
UseValues == {None, Str(<<"sp">>), Str(<<"No">>)}
KeyValues == Unset \cup {Str(<<"id", "sp">>)}
StoreArgValues == {None, Str(<<"sp">>), Str(<<"id">>)}
StoreEnvValues == {None, Str(<<"alt">>)}
ModelArgValues == {None, Str(<<"sp">>)}
ModelEnvValues == {None, Str(<<"alt">>)}

\* Texts a generative backend answers with
Texts ==
    { <<>>, <<"sp">>, <<"CM5">>, <<"sp", "CM5", "nl">>, <<"ans", "bsn", "alt">>,
      <<"fence", "fence">>, <<"fence", "json", "nl", "J_ok", "nl", "fence">>,
      <<"fence", "nl", "CM5", "nl", "fence">>, <<"ans", "sp", "J_ok_fu">> }
    \cup { <<j>> : j \in JsonTokens }

\* Run statuses the agent service reports
Pending == {"queued", "in_progress"}
Failing == {"failed", "cancelled", "expired"}

\* Thread messages, in the order the service lists them
Msg(role, content) == [role |-> role, content |-> content]

Payloads ==
    { <<>>,
      << Msg("assistant", None) >>,
      << Msg("user", Str(<<"CM5">>)) >>,
      << Msg("user", Str(<<"CM5">>)), Msg("Assistant", Str(<<"ans">>)) >>,
      << Msg("assistant", Str(<<"ans">>)), Msg("user", Str(<<"CM5">>)),
         Msg("assistant", Str(<<"alt">>)) >> }
    \cup { << Msg("user", Str(<<"CM5">>)), Msg("assistant", Str(t)) >> : t \in Texts }

\* Responses of responses.create: output_text, and the items of output
\* (unreadable when they are SDK objects without .get)
Resp(text, items, readable) == [output_text |-> text, output |-> items, readable |-> readable]

Item(type, content) == [type |-> type, content |-> content]

FsResponses ==
    { Resp(Str(t), <<>>, TRUE) : t \in Texts }
    \cup { Resp(None, <<>>, TRUE),
           Resp(None, << Item("message", <<"ans">>) >>, FALSE),
           Resp(Str(<<"sp">>),
                << Item("reasoning", <<"alt">>), Item("message", <<"sp", "ans">>),
                   Item("output_text", <<"sp">>), Item("output_text", <<"CM5">>) >>, TRUE) }

\* Results of ddg_search: how many hits
WebResults == {0, 2}

\* ------------------------------------------------------------------ as_markdown

\* RegSource, in the order as_markdown walks it (schema.py 42)
Frameworks == <<"IFRS", "AAOIFI", "CBB", "InternalPolicy">>

\* Quote and PerSourceAnswer (schema.py 7-15)
Quote(snippet, citation) == [snippet |-> snippet, citation |-> citation]

PerSourceAnswer(notes, quotes) == [notes |-> notes, quotes |-> quotes]

\* RegulAIteAnswer with every field (schema.py 17-31); per_source is a function
\* whose domain is the set of frameworks present
Record(md, summary, ps, table, comparative, rec, gk, gaps, cites, opinion) ==
    [raw_markdown |-> md, summary |-> summary, per_source |-> ps,
     comparison_table_md |-> table, comparative_analysis |-> comparative,
     recommendation |-> rec, general_knowledge |-> gk, gaps_or_next_steps |-> gaps,
     citations |-> cites, ai_opinion |-> opinion]

\* RegulAIteAnswer(): every field at its default
Defaults == Record(None, <<>>, <<>>, None, <<>>, <<>>, <<>>, <<>>, <<>>, <<>>)

\* `if text: parts += [heading, text.strip(), ""]`
Section(heading, text) ==
    IF text # <<>> THEN << <<heading>>, Strip(text), <<>> >> ELSE <<>>

\* schema.py 52-54: one line per quote
QuoteLines(quotes) ==
    [i \in 1..Len(quotes) |->
        <<"> ">> \o quotes[i].snippet
        \o (IF Truthy(quotes[i].citation) THEN <<" - ">> \o quotes[i].citation.s ELSE <<>>)]

\* f"### {fw}"
FrameworkHeading(fw) ==
    CASE fw = "IFRS" -> "### IFRS"
      [] fw = "AAOIFI" -> "### AAOIFI"
      [] fw = "CBB" -> "### CBB"
      [] fw = "InternalPolicy" -> "### InternalPolicy"

\* schema.py 43-55: a PerSourceAnswer object is always true, so `if not ps`
\* skips only the frameworks that are not in per_source
FrameworkSection(ps, fw) ==
    IF fw \notin DOMAIN ps THEN <<>>
    ELSE << <<FrameworkHeading(fw)>> >>
         \o (IF Truthy(ps[fw].notes) THEN <<Strip(ps[fw].notes.s)>> ELSE <<>>)
         \o (IF ps[fw].quotes # <<>>
             THEN << <<>>, <<"**Evidence (2-5 quotes):**">> >> \o QuoteLines(ps[fw].quotes)
             ELSE <<>>)
         \o << <<>> >>

\* schema.py 69-73
CitationsSection(cites) ==
    IF cites # <<>>
    THEN << <<"### Citations">> >> \o [i \in 1..Len(cites) |-> <<"- ">> \o cites[i]] \o << <<>> >>
    ELSE <<>>

\* schema.py 39-73: parts, a list of lines
Parts(a) ==
    Section("### Summary", a.summary)
    \o FrameworkSection(a.per_source, Frameworks[1])
    \o FrameworkSection(a.per_source, Frameworks[2])
    \o FrameworkSection(a.per_source, Frameworks[3])
    \o FrameworkSection(a.per_source, Frameworks[4])
    \o Section("### Comparison", OrEmpty(a.comparison_table_md))
    \o Section("### Comparative analysis", a.comparative_analysis)
    \o Section("### Recommendation", a.recommendation)
    \o Section("### General knowledge", a.general_knowledge)
    \o Section("### Gaps / Next steps", a.gaps_or_next_steps)
    \o Section("### AI opinion", a.ai_opinion)
    \o CitationsSection(a.citations)

\* A variant that returns raw_markdown only when no structured field is set
AsMarkdownStructuredFirst(a) ==
    IF Parts(a) = <<>> /\ Strip(OrEmpty(a.raw_markdown)) # <<>>
    THEN Strip(a.raw_markdown.s)
    ELSE Strip(JoinLines(Parts(a), <<"nl">>))

\* RegulAIteAnswer.as_markdown (schema.py 33-74)
AsMarkdown(a) ==
    IF Strip(OrEmpty(a.raw_markdown)) # <<>>
    THEN Strip(a.raw_markdown.s)
    ELSE Strip(JoinLines(Parts(a), <<"nl">>))

\* ------------------------------------------------------------------ state

VARIABLES
    client,         \* pipeline.client, the lazily made OpenAI client: "None" or "client"
    DEFAULT_EMPTY,  \* schema.DEFAULT_EMPTY, the one sentinel object
    pc,             \* where the running ask invocation is
    query, history, web_enabled, mode, vec_id, model,   \* the arguments of ask
    foundry_ep, foundry_agent, foundry_enabled,
    chat_model, vector_store_id, api_key,
    now, status,    \* the poll loop's clock (ticks since the deadline was set) and last status
    raw_md,         \* the text ask made its answer from (raw_md, text), <<>> when none
    fs,             \* how _responses_try_file_search ended
    web_context,    \* whether web snippets were gathered
    calls,          \* the requests sent to generative backends, in order
    polls, msg_requests, web_calls,
    exc,            \* the exception ask_foundry_agent raised, <<>> when none
    thread,         \* the messages the service listed, each with its creation time
    result,         \* what ask returned or raised
    saved,          \* the chat the caller has persisted (persist.save_chat)
    answer,         \* a RegulAIteAnswer that as_markdown is called on
    rendered,       \* what as_markdown returned, None before the call
    message,        \* a thread message that _extract_text_from_message is called on
    extracted,      \* what _extract_text_from_message returned, None before the call
    asks,           \* two invocations of ask that run at the same time, by caller
    timeout_s,      \* ask_foundry_agent's timeout_s, in ticks of the poll loop's clock
    session,        \* st.session_state.history, the turns the page shows
    chat,           \* the turns in the user's chat file (rag/persist)
    stage,          \* where run_query is: "idle", or "asking" while ask runs
    prompt,         \* the q of the latest run_query
    asked,          \* the calls of ask that run_query made, in order
    runs,           \* how many times run_query has been called
    last_answer     \* st.session_state.last_answer

args == <<query, history, web_enabled, mode, vec_id, model>>

openai == <<chat_model, vector_store_id, api_key>>

env == <<args, foundry_ep, foundry_agent, foundry_enabled, openai>>

foundry == <<now, status, polls, msg_requests, exc, thread>>

page == <<answer, rendered>>

extractor == <<message, extracted>>

\* the state of the functions that are checked on their own
ui == <<session, chat, stage, prompt, asked, runs, last_answer>>

aside == <<page, extractor, asks, timeout_s, ui>>

vars == <<client, DEFAULT_EMPTY, pc, env, foundry, raw_md, fs, web_context, calls, web_calls,
          result, saved, aside>>

NoResult == [kind |-> "none", ans |-> OnlyMarkdown(None), obj |-> "none"]

\* ask returns a record it made, or the DEFAULT_EMPTY object itself
Returns(ans) == [kind |-> "record", ans |-> ans, obj |-> "fresh"]

ReturnsDefault == [kind |-> "record", ans |-> DEFAULT_EMPTY, obj |-> "DEFAULT_EMPTY"]

\* The sentinel object after ask has produced res: what was assigned through
\* the reference when res is the sentinel itself
SentinelAfter(res) == IF res.obj = "DEFAULT_EMPTY" THEN res.ans ELSE DEFAULT_EMPTY

\* an exception leaves ask
Raises == [kind |-> "raise", ans |-> OnlyMarkdown(None), obj |-> "none"]

ErrorHeading == "### Error"

\* The callers of the two invocations, and an invocation that has not begun:
\* its position, its query, the client _get_openai_client gave it, its result
Callers == {1, 2}

NotCalled == [pc |-> "idle", query |-> <<>>, cli |-> "None", result |-> NoResult]

\* No page is open: the session state as app.py 75-77 makes it, no chat file
NoPage ==
    /\ session = <<>> /\ chat = <<>> /\ stage = "idle" /\ prompt = <<>>
    /\ asked = <<>> /\ runs = 0 /\ last_answer = None

\* A variant whose record leaves the failure details out
FoundryErrorRecordBare(e) ==
    OnlyMarkdown(Str(<<ErrorHeading, "nl", "Azure Foundry agent call failed.">>))

\* pipeline.py 244
FoundryErrorRecord(e) ==
    OnlyMarkdown(Str(<<ErrorHeading, "nl", "Azure Foundry agent call failed.", "nl", "nl",
                       "Details: ">> \o e))

\* A variant in which a failed completion is reported in the agent's words
ModelErrorRecordAsAgent(e) == FoundryErrorRecord(e)

\* pipeline.py 367
ModelErrorRecord(e) ==
    OnlyMarkdown(Str(<<ErrorHeading, "nl", "Model call failed.", "nl", "nl", "Details: ">> \o e))

Init ==
    /\ client = "None"
    /\ DEFAULT_EMPTY = OnlyMarkdown(Str(<<"No answer was produced.">>))
    /\ pc = "idle"
    /\ query = <<>> /\ history = <<>> /\ web_enabled = FALSE /\ mode = "auto"
    /\ vec_id = None /\ model = None
    /\ foundry_ep = <<>> /\ foundry_agent = <<>> /\ foundry_enabled = FALSE
    /\ chat_model = <<>> /\ vector_store_id = <<>> /\ api_key = <<>>
    /\ now = 0 /\ status = "None" /\ raw_md = <<>>
    /\ fs = "none" /\ web_context = FALSE
    /\ calls = <<>> /\ polls = 0 /\ msg_requests = 0 /\ web_calls = 0
    /\ exc = <<>>
    /\ thread = <<>>
    /\ result = NoResult
    /\ saved = <<>>
    /\ answer = Defaults /\ rendered = None
    /\ message = Msg("assistant", None) /\ extracted = None
    /\ asks = [i \in Callers |-> NotCalled]
    /\ timeout_s = TimeoutTicks
    /\ NoPage

\* A variant in which the turns are trimmed in place while the brief is made
AskStartTrimsHistory ==
    /\ pc = "idle"
    /\ \E q \in Queries, h \in Histories, w \in BOOLEAN, mh \in ModeHints,
          vec \in StoreArgValues, m \in ModelArgValues,
          ep \in EndpointValues, ag \in AgentValues, use \in UseValues :
            /\ query' = q
            /\ history' = [i \in 1..Len(h) |-> [h[i] EXCEPT !.content = Strip(@)]]
            /\ saved' = h
            /\ web_enabled' = w
            /\ mode' = NormalizeMode(mh)
            /\ vec_id' = vec
            /\ model' = m
            /\ foundry_ep' = Setting(ep)
            /\ foundry_agent' = Setting(ag)
            /\ foundry_enabled' = FoundryEnabled(ep, ag, use)
            /\ pc' = IF FoundryEnabled(ep, ag, use) THEN "foundry" ELSE "settings"
    /\ UNCHANGED <<client, DEFAULT_EMPTY, aside, openai, foundry, raw_md, fs, web_context, calls,
                   web_calls, result>>

\* ask is called (pipeline.py 190-213): the arguments, and the managed-agent
\* settings of the environment
AskStart ==
    /\ pc = "idle"
    /\ \E q \in Queries, h \in Histories, w \in BOOLEAN, mh \in ModeHints,
          vec \in StoreArgValues, m \in ModelArgValues,
          ep \in EndpointValues, ag \in AgentValues, use \in UseValues :
            /\ query' = q
            /\ history' = h
            /\ saved' = h
            /\ web_enabled' = w
            /\ mode' = NormalizeMode(mh)
            /\ vec_id' = vec
            /\ model' = m
            /\ foundry_ep' = Setting(ep)
            /\ foundry_agent' = Setting(ag)
            /\ foundry_enabled' = FoundryEnabled(ep, ag, use)
            /\ pc' = IF FoundryEnabled(ep, ag, use) THEN "foundry" ELSE "settings"
    /\ UNCHANGED <<client, DEFAULT_EMPTY, aside, openai, foundry, raw_md, fs, web_context, calls,
                   web_calls, result>>

\* pipeline.py 261-262, and the OPENAI_API_KEY that _get_openai_client will
\* find (pipeline.py 24): the settings of the OpenAI paths
ReadSettings ==
    /\ pc = "settings"
    /\ \E key \in KeyValues, envVs \in StoreEnvValues, envChat \in ModelEnvValues :
            /\ chat_model' = ChatModel(model, envChat, None)
            /\ vector_store_id' = VectorStoreId(vec_id, envVs)
            /\ api_key' = Setting(key)
    /\ pc' = "file_search"
    /\ UNCHANGED <<client, DEFAULT_EMPTY, aside, saved, args, foundry_ep, foundry_agent,
                   foundry_enabled, foundry, raw_md, fs, web_context, calls, web_calls, result>>

\* ------------------------------------------------------------------ ask_foundry_agent

\* user_text (pipeline.py 218-220)
UserText ==
    IF HistoryToBrief(history) # <<>>
    THEN <<"Conversation brief (most recent first):", "nl">> \o HistoryToBrief(history)
         \o <<"nl", "nl", "User query:", "nl">> \o query
    ELSE query

\* router.py 13-20
LengthDirective(m) ==
    CASE m = "short" -> "Respond in ~5-8 bullet points with tight phrasing."
      [] m = "long" -> "Respond as a detailed brief (8-15 bullets + short paragraphs)."
      [] m = "research" -> "Respond as a structured memo with sections, bullets, and short paragraphs"
      [] OTHER -> "Pick an appropriate level of detail automatically."

\* agents.py 40-48
ModeAddendum(m) ==
    CASE m = "short" -> "Mode: SHORT."
      [] m = "long" -> "Mode: LONG."
      [] m = "research" -> "Mode: RESEARCH."
      [] OTHER -> "Mode: AUTO."

\* agents.py 50-66: the system instruction, whatever the query
BuildSystemInstruction(m) ==
    <<"BASE_RULES", "nl", "House rules:", "nl", LengthDirective(m), "nl", ModeAddendum(m), "nl",
      "Return ONE JSON object with keys:", "nl",
      "raw_markdown (string), summary (string), per_source (object), follow_up_suggestions (array).">>

\* One request to a backend: the agent gets user_text only; the file search and
\* the completion get sys_inst as their first message (pipeline.py 112, 342)
Request(backend, name, store, text, style, schema, web, tokens) ==
    [backend |-> backend, model |-> name, store |-> store, text |-> text,
     style |-> style, schema_msg |-> schema, web |-> web, max_tokens |-> tokens,
     sys_inst |-> IF backend = "foundry" THEN <<>> ELSE BuildSystemInstruction(mode)]

\* A variant in which a failed agent call falls through to the next backend
FoundryFailsFallsThrough(e) ==
    /\ exc' = e
    /\ result' = NoResult
    /\ pc' = "settings"

\* ask_foundry_agent raises e; ask catches it (pipeline.py 242-244)
FoundryFails(e) ==
    /\ exc' = e
    /\ result' = Returns(FoundryErrorRecord(e))
    /\ pc' = "done"

\* foundry_client.py 89-95: the configuration check and the token
FoundryBegin ==
    /\ pc = "foundry"
    /\ \/ /\ Endpoint(foundry_ep) = <<>> \/ Strip(foundry_agent) = <<>>
          /\ FoundryFails(<<"Azure Foundry is not configured: set ",
                            "AI_FOUNDRY_PROJECT_ENDPOINT", " and ",
                            "AI_FOUNDRY_ASSISTANT_ID">>)
       \/ /\ Endpoint(foundry_ep) # <<>> /\ Strip(foundry_agent) # <<>>
          /\ \/ FoundryFails(<<"CredentialUnavailableError">>)
             \/ /\ pc' = "foundry_run"
                /\ UNCHANGED <<exc, result>>
    /\ UNCHANGED <<client, DEFAULT_EMPTY, aside, saved, env, thread, now, status, raw_md, polls,
                   msg_requests, fs, web_context, calls, web_calls>>

\* foundry_client.py 97-118: POST threads/runs, then the deadline is set
FoundryCreateRun ==
    /\ pc = "foundry_run"
    /\ calls' = Append(calls, Request("foundry", <<>>, <<>>, UserText, "none", FALSE, FALSE, 0))
    /\ \/ FoundryFails(<<"HTTPStatusError">>) /\ UNCHANGED <<now, status>>
       \/ FoundryFails(<<"Unexpected run response (missing ids)">>) /\ UNCHANGED <<now, status>>
       \/ /\ now' = 0
          /\ status' = "None"
          /\ pc' = "foundry_poll"
          /\ UNCHANGED <<exc, result>>
    /\ UNCHANGED <<client, DEFAULT_EMPTY, aside, saved, env, thread, raw_md, polls, msg_requests,
                   fs, web_context, web_calls>>

\* foundry_client.py 119-132: one turn of the loop; the clock moves on by the
\* request and the sleep
FoundryPoll ==
    /\ pc = "foundry_poll"
    /\ now < timeout_s
    /\ polls' = polls + 1
    /\ \/ FoundryFails(<<"HTTPStatusError">>) /\ UNCHANGED <<now, status>>
       \/ /\ status' = "completed"
          /\ pc' = "foundry_messages"
          /\ UNCHANGED <<now, exc, result>>
       \/ \E s \in Failing :
            /\ status' = s
            /\ FoundryFails(<<"Run ended with status=", s, ": ", "status_obj">>)
            /\ UNCHANGED now
       \/ \E s \in Pending \cup {"None"}, t \in (now + 1)..timeout_s :
            /\ status' = s
            /\ now' = t
            /\ UNCHANGED <<pc, exc, result>>
    /\ UNCHANGED <<client, DEFAULT_EMPTY, aside, saved, env, thread, raw_md, msg_requests,
                   fs, web_context, calls, web_calls>>

\* foundry_client.py 135: the message of the timeout; 90.0 is the default
TimedOut ==
    IF timeout_s = TimeoutTicks
    THEN <<"Run timed out after 90.0s (last status=", status, ")">>
    ELSE <<"Run timed out after ", ToString(timeout_s), "s (last status=", status, ")">>

\* A variant in which the messages are requested after the deadline has passed
FoundryTimeoutReadsMessages ==
    /\ pc = "foundry_poll"
    /\ now >= timeout_s
    /\ status # "completed"
    /\ pc' = "foundry_messages"
    /\ UNCHANGED <<client, DEFAULT_EMPTY, aside, saved, env, thread, now, status, raw_md, polls,
                   msg_requests, fs, web_context, calls, web_calls, exc, result>>

\* A variant in which the timeout is raised only once the clock is past the deadline
FoundryTimeoutLate ==
    /\ pc = "foundry_poll"
    /\ now > timeout_s
    /\ status # "completed"
    /\ FoundryFails(TimedOut)
    /\ UNCHANGED <<client, DEFAULT_EMPTY, aside, saved, env, thread, now, status, raw_md, polls,
                   msg_requests, fs, web_context, calls, web_calls>>

\* foundry_client.py 119, 134-135: the deadline has passed
FoundryTimeout ==
    /\ pc = "foundry_poll"
    /\ now >= timeout_s
    /\ status # "completed"
    /\ FoundryFails(TimedOut)
    /\ UNCHANGED <<client, DEFAULT_EMPTY, aside, saved, env, thread, now, status, raw_md, polls,
                   msg_requests, fs, web_context, calls, web_calls>>

\* foundry_client.py 27-68: _extract_text_from_message.  Besides a str and None
\* a payload holds numbers, lists of parts and mappings.

\* a JSON number, s is what str() gives for it
Num(s) == [k |-> "num", s |-> s]

\* A content part, a mapping with the keys type, text, value, content; a key
\* that is absent reads as None, as part.get(key) does
Part(type, text, value, content) ==
    [k |-> "dict", type |-> type, text |-> text, value |-> value, content |-> content]

\* A list of parts
List(items) == [k |-> "list", items |-> items]

\* The mapping under a part's "text" key
TextObj(value, text) == [k |-> "dict", value |-> value, text |-> text]

\* bool(v)
IsTrue(v) ==
    CASE v.k = "none" -> FALSE
      [] v.k = "dict" -> \E f \in DOMAIN v \ {"k"} : v[f].k # "none"
      [] v.k = "list" -> v.items # <<>>
      [] OTHER -> v.s # <<>>

\* a or b
OrElse(a, b) == IF IsTrue(a) THEN a ELSE b

\* str(v)
PyStr(v) ==
    CASE v.k = "none" -> <<"None">>
      [] v.k = "dict" -> <<"{..}">>
      [] v.k = "list" -> <<"[..]">>
      [] OTHER -> v.s

\* foundry_client.py 51
TextKinds == {Str(<<"text">>), Str(<<"output_text">>)}

\* foundry_client.py 52-57: txt
TextOf(part) ==
    LET t == part.text IN
    IF t.k = "dict" THEN OrElse(OrElse(t.value, t.text), Str(<<>>))
    ELSE IF t.k = "str" THEN t
    ELSE Str(<<>>)

\* foundry_client.py 62: maybe
Generic(part) == OrElse(OrElse(part.value, part.content), Str(<<>>))

\* A variant in which the generic keys are read for every part
PartChunksAlwaysFallsBack(part, chunks) ==
    IF part.k # "dict" THEN chunks
    ELSE LET txt == IF part.type \in TextKinds THEN TextOf(part) ELSE Str(<<>>)
             c1 == IF IsTrue(txt) THEN Append(chunks, Strip(PyStr(txt))) ELSE chunks
         IN IF IsTrue(Generic(part)) THEN Append(c1, Strip(PyStr(Generic(part)))) ELSE c1

\* foundry_client.py 47-64: one turn of the loop over the parts
PartChunks(part, chunks) ==
    IF part.k # "dict" THEN chunks
    ELSE LET txt == IF part.type \in TextKinds THEN TextOf(part) ELSE Str(<<>>)
             c1 == IF IsTrue(txt) THEN Append(chunks, Strip(PyStr(txt))) ELSE chunks
         IN IF c1 = <<>> /\ IsTrue(Generic(part))
            THEN Append(c1, Strip(PyStr(Generic(part))))
            ELSE c1

RECURSIVE PartsChunks(_, _)
PartsChunks(parts, chunks) ==
    IF parts = <<>> THEN chunks
    ELSE PartsChunks(Tail(parts), PartChunks(Head(parts), chunks))

\* [c for c in chunks if c]
NonEmpty(chunks) == SelectSeq(chunks, LAMBDA c : c # <<>>)

ExtractTextFromMessage(msg) ==
    LET content == msg.content IN
    CASE content.k = "none" -> <<>>
      [] content.k = "str" -> Strip(content.s)
      [] content.k = "list" ->
            Strip(JoinLines(NonEmpty(PartsChunks(content.items, <<>>)), <<"nl", "nl">>))
      [] OTHER -> Strip(PyStr(content))

\* foundry_client.py 145-156: the first message whose role is assistant, else
\* the first whose role holds "assistant" in any case
RoleIs(payload, roles) == {i \in 1..Len(payload) : payload[i].role \in roles}

First(S) == CHOOSE i \in S : \A j \in S : i <= j

NewestAssistantText(payload) ==
    LET exact == RoleIs(payload, {"assistant"})
        loose == RoleIs(payload, {"assistant", "Assistant"})
    IN IF exact # {} THEN ExtractTextFromMessage(payload[First(exact)])
       ELSE IF loose # {} THEN ExtractTextFromMessage(payload[First(loose)])
       ELSE <<>>

\* The request names no order (foundry_client.py 138-142): the service lists
\* the messages newest first or oldest first
Orders == {"desc", "asc"}

\* The listed messages with the creation time the service gives each
Stamped(payload, order) ==
    [i \in 1..Len(payload) |->
        [role |-> payload[i].role, content |-> payload[i].content,
         created_at |-> IF order = "desc" THEN Len(payload) - i + 1 ELSE i]]

\* foundry_client.py 137-156: GET threads/{id}/messages
FoundryMessages ==
    /\ pc = "foundry_messages"
    /\ msg_requests' = msg_requests + 1
    /\ \/ FoundryFails(<<"HTTPStatusError">>) /\ UNCHANGED <<raw_md, thread>>
       \/ \E payload \in Payloads, order \in Orders :
            /\ thread' = Stamped(payload, order)
            /\ raw_md' = NewestAssistantText(payload)
            /\ pc' = "foundry_answer"
            /\ UNCHANGED <<exc, result>>
    /\ UNCHANGED <<client, DEFAULT_EMPTY, aside, saved, env, now, status, polls,
                   fs, web_context, calls, web_calls>>

\* pipeline.py 229-258: the agent's text becomes the answer
FoundryAnswer ==
    /\ pc = "foundry_answer"
    /\ LET res == IF raw_md = <<>> THEN ReturnsDefault
                  ELSE IF Normalize(raw_md, raw_md).raised
                       THEN Returns(FoundryErrorRecord(<<"ValidationError">>))
                       ELSE Returns(WithFollowUps(Normalize(raw_md, raw_md).ans, query))
       IN result' = res /\ DEFAULT_EMPTY' = SentinelAfter(res)
    /\ pc' = "done"
    /\ UNCHANGED <<client, aside, saved, env, foundry, raw_md, fs, web_context,
                   calls, web_calls>>

\* ------------------------------------------------------------------ OpenAI paths

\* A variant in which a client can be made without a key
ClientOutcomesWithoutKey ==
    IF client # "None" THEN {client} ELSE {"client", "None"}

\* _get_openai_client: the client it can return ("None" when the key is blank
\* or the constructor raises); a client once made is kept
ClientOutcomes ==
    IF client # "None" THEN {client}
    ELSE IF api_key = <<>> THEN {"None"}
    ELSE {"client", "None"}

Style == IF Concise(query) THEN "strict" ELSE IF Scenario(query) THEN "scenario" ELSE "natural"

\* pipeline.py 156-173: output_text, else the text items of output
RECURSIVE Chunks(_)
Chunks(items) ==
    IF items = <<>> THEN <<>>
    ELSE LET it == Head(items)
             txt == Strip(it.content)
         IN IF it.type \in {"message", "output_text"} /\ txt # <<>>
            THEN <<txt>> \o Chunks(Tail(items))
            ELSE Chunks(Tail(items))

ResponseText(resp) ==
    IF Strip(OrEmpty(resp.output_text)) # <<>> THEN Strip(OrEmpty(resp.output_text))
    ELSE IF ~resp.readable THEN <<>>
    ELSE Strip(JoinLines(Chunks(resp.output), <<"nl", "nl">>))

\* A variant in which the file search is tried again after a blank answer
FileSearchOutcomeRetries(text) ==
    IF text = <<>> THEN [fs |-> "no_text", result |-> NoResult, pc |-> "web", raw_md |-> <<>>]
    ELSE IF Normalize(text, text).raised
         THEN [fs |-> "error", result |-> Raises, pc |-> "done", raw_md |-> text]
    ELSE IF MarkdownOf(Normalize(text, text).ans) # <<>>
         THEN [fs |-> "answered",
               result |-> Returns(WithFollowUps(Normalize(text, text).ans, query)),
               pc |-> "done", raw_md |-> text]
    ELSE [fs |-> "blank", result |-> NoResult, pc |-> "file_search", raw_md |-> <<>>]

\* A variant in which an answer found by the file search is not returned
FileSearchOutcomeNoReturn(text) ==
    IF text = <<>> THEN [fs |-> "no_text", result |-> NoResult, pc |-> "web", raw_md |-> <<>>]
    ELSE IF Normalize(text, text).raised
         THEN [fs |-> "error", result |-> Raises, pc |-> "done", raw_md |-> text]
    ELSE IF MarkdownOf(Normalize(text, text).ans) # <<>>
         THEN [fs |-> "answered", result |-> NoResult, pc |-> "web", raw_md |-> text]
    ELSE [fs |-> "blank", result |-> NoResult, pc |-> "web", raw_md |-> <<>>]

\* A variant in which a blank file-search answer ends the invocation
FileSearchOutcomeBlankEnds(text) ==
    IF text = <<>> THEN [fs |-> "no_text", result |-> NoResult, pc |-> "web", raw_md |-> <<>>]
    ELSE IF Normalize(text, text).raised
         THEN [fs |-> "error", result |-> Raises, pc |-> "done", raw_md |-> text]
    ELSE IF MarkdownOf(Normalize(text, text).ans) # <<>>
         THEN [fs |-> "answered",
               result |-> Returns(WithFollowUps(Normalize(text, text).ans, query)),
               pc |-> "done", raw_md |-> text]
    ELSE [fs |-> "blank", result |-> ReturnsDefault, pc |-> "done", raw_md |-> <<>>]

\* pipeline.py 175-187 and 308-320: what becomes of the text of the response; the
\* text is kept while ask holds an answer made of it
FileSearchOutcome(text) ==
    IF text = <<>> THEN [fs |-> "no_text", result |-> NoResult, pc |-> "web", raw_md |-> <<>>]
    ELSE IF Normalize(text, text).raised
         THEN [fs |-> "error", result |-> Raises, pc |-> "done", raw_md |-> text]
    ELSE IF MarkdownOf(Normalize(text, text).ans) # <<>>
         THEN [fs |-> "answered",
               result |-> Returns(WithFollowUps(Normalize(text, text).ans, query)),
               pc |-> "done", raw_md |-> text]
    ELSE [fs |-> "blank", result |-> NoResult, pc |-> "web", raw_md |-> <<>>]

\* _responses_try_file_search and pipeline.py 299-320
FileSearch ==
    /\ pc = "file_search"
    /\ \/ /\ vector_store_id = <<>>
          /\ fs' = "no_store"
          /\ pc' = "web"
          /\ UNCHANGED <<client, calls, result, raw_md>>
       \/ /\ vector_store_id # <<>>
          /\ \E cli \in ClientOutcomes :
               /\ client' = cli
               /\ \/ /\ cli = "None"
                     /\ fs' = "no_client"
                     /\ pc' = "web"
                     /\ UNCHANGED <<calls, result, raw_md>>
                  \/ /\ cli # "None"
                     /\ calls' = Append(calls,
                            Request("file_search", chat_model, vector_store_id,
                                    HistoryToBrief(history) \o <<"nl">> \o query, Style,
                                    FALSE, FALSE, ModeTokens("long")))
                     /\ \/ /\ fs' = "raised"
                           /\ pc' = "web"
                           /\ UNCHANGED <<result, raw_md>>
                        \/ \E resp \in FsResponses :
                             /\ fs' = FileSearchOutcome(ResponseText(resp)).fs
                             /\ result' = FileSearchOutcome(ResponseText(resp)).result
                             /\ pc' = FileSearchOutcome(ResponseText(resp)).pc
                             /\ raw_md' = FileSearchOutcome(ResponseText(resp)).raw_md
    /\ DEFAULT_EMPTY' = SentinelAfter(result')
    /\ UNCHANGED <<aside, saved, env, foundry, web_context, web_calls>>

\* pipeline.py 325-338: web snippets for a query that is not concise
WebSearch ==
    /\ pc = "web"
    /\ \/ /\ web_enabled /\ ~Concise(query)
          /\ web_calls' = web_calls + 1
          /\ \E n \in WebResults : web_context' = (n > 0)
       \/ /\ ~(web_enabled /\ ~Concise(query))
          /\ UNCHANGED <<web_calls, web_context>>
    /\ pc' = "plain"
    /\ UNCHANGED <<client, DEFAULT_EMPTY, aside, saved, env, foundry, raw_md, fs, calls, result>>

\* A variant in which a blank answer is replaced by the sentinel and goes on to
\* the follow-up suggestions
PlainResultFillsSentinel(q, text) ==
    IF Concise(q)
    THEN Returns(OnlyMarkdown(Str(IF Strip(StripCodeFences(text)) # <<>>
                                  THEN Strip(StripCodeFences(text))
                                  ELSE <<"not found">>)))
    ELSE IF Normalize(text, Strip(StripCodeFences(text))).raised THEN Raises
    ELSE IF MarkdownOf(Normalize(text, Strip(StripCodeFences(text))).ans) = <<>>
         THEN [ReturnsDefault EXCEPT !.ans = WithFollowUps(DEFAULT_EMPTY, q)]
    ELSE Returns(WithFollowUps(Normalize(text, Strip(StripCodeFences(text))).ans, q))

\* pipeline.py 369-398: what becomes of the text of the completion for query q
PlainResult(q, text) ==
    IF Concise(q)
    THEN Returns(OnlyMarkdown(Str(IF Strip(StripCodeFences(text)) # <<>>
                                  THEN Strip(StripCodeFences(text))
                                  ELSE <<"not found">>)))
    ELSE IF Normalize(text, Strip(StripCodeFences(text))).raised THEN Raises
    ELSE IF MarkdownOf(Normalize(text, Strip(StripCodeFences(text))).ans) = <<>>
         THEN ReturnsDefault
    ELSE Returns(WithFollowUps(Normalize(text, Strip(StripCodeFences(text))).ans, q))

PlainOutcome(text) == PlainResult(query, text)

\* pipeline.py 341-398: the chat completion
PlainCompletion ==
    /\ pc = "plain"
    /\ \E cli \in ClientOutcomes :
         /\ client' = cli
         /\ \/ /\ cli = "None"
               /\ result' = ReturnsDefault
               /\ UNCHANGED <<calls, raw_md>>
            \/ /\ cli # "None"
               /\ calls' = Append(calls,
                      Request("plain", chat_model, <<>>,
                              HistoryToBrief(history) \o <<"nl">> \o query, Style,
                              ~Concise(query), web_context, ModeTokens(mode)))
               /\ \/ result' = Returns(ModelErrorRecord(<<"APIError">>)) /\ UNCHANGED raw_md
                  \/ \E text \in Texts : result' = PlainOutcome(text) /\ raw_md' = text
    /\ pc' = "done"
    /\ DEFAULT_EMPTY' = SentinelAfter(result')
    /\ UNCHANGED <<aside, saved, env, foundry, fs, web_context, web_calls>>

\* The caller has the result; the invocation's locals are gone
AskReturn ==
    /\ pc = "done"
    /\ pc' = "idle"
    /\ query' = <<>> /\ history' = <<>> /\ web_enabled' = FALSE /\ mode' = "auto"
    /\ vec_id' = None /\ model' = None
    /\ foundry_ep' = <<>> /\ foundry_agent' = <<>> /\ foundry_enabled' = FALSE
    /\ chat_model' = <<>> /\ vector_store_id' = <<>> /\ api_key' = <<>>
    /\ now' = 0 /\ status' = "None" /\ raw_md' = <<>>
    /\ fs' = "none" /\ web_context' = FALSE
    /\ calls' = <<>> /\ polls' = 0 /\ msg_requests' = 0 /\ web_calls' = 0
    /\ exc' = <<>>
    /\ thread' = <<>>
    /\ result' = NoResult
    /\ saved' = <<>>
    /\ UNCHANGED <<client, DEFAULT_EMPTY, aside>>

Next ==
    \/ AskStart
    \/ ReadSettings
    \/ FoundryBegin
    \/ FoundryCreateRun
    \/ FoundryPoll
    \/ FoundryTimeout
    \/ FoundryMessages
    \/ FoundryAnswer
    \/ FileSearch
    \/ WebSearch
    \/ PlainCompletion
    \/ AskReturn

Spec == Init /\ [][Next]_vars

\* ------------------------------------------------------------------ rendering

RawMarkdowns ==
    {None, Str(<<>>), Str(<<"sp">>), Str(<<"ans">>), Str(<<"sp", "ans", "nl">>)}

PerSources ==
    LET ifrs == {PerSourceAnswer(None, <<>>), PerSourceAnswer(Str(<<"note">>), <<>>),
                 PerSourceAnswer(None, <<Quote(<<"quote">>, Str(<<"cite">>))>>)}
        aaoifi == {PerSourceAnswer(Str(<<"sp", "note">>), <<>>)}
        cbb == {PerSourceAnswer(Str(<<"note">>), <<Quote(<<"quote">>, None)>>)}
    IN {<<>>}
       \cup {[fw \in {"IFRS"} |-> p] : p \in ifrs}
       \cup {[fw \in {"AAOIFI"} |-> p] : p \in aaoifi}
       \cup {[fw \in {"IFRS", "CBB"} |-> IF fw = "IFRS" THEN p ELSE q] : p \in ifrs, q \in cbb}
       \cup {[fw \in {"AAOIFI", "CBB"} |-> IF fw = "AAOIFI" THEN p ELSE q] :
                p \in aaoifi, q \in cbb}

Fields == {<<>>, <<"text">>}

\* The records as_markdown is called on
Records ==
    {Record(md, summary, ps, table, comparative, rec, gk, gaps, cites, opinion) :
        md \in RawMarkdowns, summary \in {<<>>, <<"text">>, <<"sp", "text", "nl">>},
        ps \in PerSources, table \in {None, Str(<<"table">>)},
        comparative \in Fields, rec \in Fields, gk \in Fields, gaps \in Fields,
        cites \in {<<>>, << <<"c1">>, <<"c2">> >>}, opinion \in Fields}

InitRender ==
    /\ client = "None"
    /\ DEFAULT_EMPTY = OnlyMarkdown(Str(<<"No answer was produced.">>))
    /\ pc = "idle"
    /\ query = <<>> /\ history = <<>> /\ web_enabled = FALSE /\ mode = "auto"
    /\ vec_id = None /\ model = None
    /\ foundry_ep = <<>> /\ foundry_agent = <<>> /\ foundry_enabled = FALSE
    /\ chat_model = <<>> /\ vector_store_id = <<>> /\ api_key = <<>>
    /\ now = 0 /\ status = "None" /\ raw_md = <<>>
    /\ fs = "none" /\ web_context = FALSE
    /\ calls = <<>> /\ polls = 0 /\ msg_requests = 0 /\ web_calls = 0
    /\ exc = <<>>
    /\ thread = <<>>
    /\ result = NoResult
    /\ saved = <<>>
    /\ answer \in Records
    /\ rendered = None
    /\ message = Msg("assistant", None) /\ extracted = None
    /\ asks = [i \in Callers |-> NotCalled]
    /\ timeout_s = TimeoutTicks
    /\ NoPage

\* md = ans.as_markdown() (app.py 143)
Render ==
    /\ rendered = None
    /\ rendered' = Str(AsMarkdown(answer))
    /\ UNCHANGED <<client, DEFAULT_EMPTY, pc, env, foundry, raw_md, fs, web_context, calls,
                   web_calls, result, saved, answer, extractor, asks,
                   timeout_s, ui>>

NextRender == Render

SpecRender == InitRender /\ [][NextRender]_vars

\* ------------------------------------------------------------------ extraction

\* ask is not running and nothing has been rendered
Resting ==
    /\ DEFAULT_EMPTY = OnlyMarkdown(Str(<<"No answer was produced.">>))
    /\ pc = "idle"
    /\ query = <<>> /\ history = <<>> /\ web_enabled = FALSE /\ mode = "auto"
    /\ vec_id = None /\ model = None
    /\ foundry_ep = <<>> /\ foundry_agent = <<>> /\ foundry_enabled = FALSE
    /\ chat_model = <<>> /\ vector_store_id = <<>>
    /\ now = 0 /\ status = "None" /\ raw_md = <<>>
    /\ fs = "none" /\ web_context = FALSE
    /\ calls = <<>> /\ polls = 0 /\ msg_requests = 0 /\ web_calls = 0
    /\ exc = <<>>
    /\ thread = <<>>
    /\ result = NoResult
    /\ saved = <<>>
    /\ answer = Defaults /\ rendered = None

MaxParts == 3

\* The shapes of a part the service sends (foundry_client.py 31-35), and
\* shapes it may send besides
PartShapes ==
    { Part(Str(<<"text">>), TextObj(Str(<<"ans">>), None), None, None),
      Part(Str(<<"text">>), TextObj(None, Str(<<"alt", "nl">>)), None, None),
      Part(Str(<<"output_text">>), Str(<<"sp", "alt">>), None, None),
      Part(Str(<<"text">>), Str(<<"sp">>), None, None),
      Part(Str(<<"text">>), None, Str(<<"CM5">>), None),
      Part(Str(<<"image_file">>), None, None, None),
      Part(Str(<<"image_file">>), Str(<<"alt">>), None, None),
      Part(None, None, Str(<<"id">>), None),
      Part(None, None, Str(<<>>), Str(<<"json", "sp">>)),
      Part(None, None, Num(<<"7">>), None),
      Str(<<"ans">>) }

Contents ==
    { None, Str(<<>>), Str(<<"sp", "ans", "nl">>), Num(<<"7">>),
      Part(None, None, None, None), Part(None, None, Str(<<"ans">>), None) }
    \cup { List(parts) : parts \in UNION { [1..n -> PartShapes] : n \in 0..MaxParts } }

InitExtract ==
    /\ Resting
    /\ client = "None" /\ api_key = <<>>
    /\ asks = [i \in Callers |-> NotCalled]
    /\ timeout_s = TimeoutTicks
    /\ NoPage
    /\ message \in { Msg("assistant", c) : c \in Contents }
    /\ extracted = None

\* text = _extract_text_from_message(assistant_msgs[0]) (foundry_client.py 155)
Extract ==
    /\ extracted = None
    /\ extracted' = Str(ExtractTextFromMessage(message))
    /\ UNCHANGED <<client, DEFAULT_EMPTY, pc, env, foundry, raw_md, fs, web_context, calls,
                   web_calls, result, saved, page, message, asks, timeout_s, ui>>

NextExtract == Extract

SpecExtract == InitExtract /\ [][NextExtract]_vars

\* ------------------------------------------------------------------ two callers

\* Two invocations of ask on the plain-completion path (agent not configured,
\* no vector store), interleaved statement by statement where they touch the
\* module globals client (pipeline.py 13) and DEFAULT_EMPTY (schema.py 76).
\* The environment is one for both: api_key is OPENAI_API_KEY, stripped.

PairTexts == { <<>>, <<"CM5">>, <<"ans", "sp", "J_ok_fu">>, <<"J_listmd">> }

\* the client object the i-th caller's invocation constructs
ClientOf(i) == IF i = 1 THEN "client1" ELSE "client2"

InitPair ==
    /\ Resting
    /\ client = "None"
    /\ api_key \in { Setting(k) : k \in KeyValues }
    /\ message = Msg("assistant", None) /\ extracted = None
    /\ asks = [i \in Callers |-> NotCalled]
    /\ timeout_s = TimeoutTicks
    /\ NoPage

PairFrame ==
    UNCHANGED <<pc, env, foundry, raw_md, fs, web_context, calls, web_calls, result, saved,
                page, extractor, timeout_s, ui>>

\* ask(query, ...) is called (pipeline.py 190) and comes to line 355
AskCalled(i) ==
    /\ asks[i].pc = "idle"
    /\ \E q \in Queries : asks' = [asks EXCEPT ![i].pc = "check", ![i].query = q]
    /\ UNCHANGED <<client, DEFAULT_EMPTY>>
    /\ PairFrame

\* pipeline.py 20-22: if client is not None: return client
ClientCheck(i) ==
    /\ asks[i].pc = "check"
    /\ asks' = IF client # "None"
               THEN [asks EXCEPT ![i].pc = "completion", ![i].cli = client]
               ELSE [asks EXCEPT ![i].pc = "make"]
    /\ UNCHANGED <<client, DEFAULT_EMPTY>>
    /\ PairFrame

\* pipeline.py 23-30: the key is read and the client constructed and stored
ClientMake(i) ==
    /\ asks[i].pc = "make"
    /\ \/ /\ asks' = [asks EXCEPT ![i].pc = "completion", ![i].cli = "None"]
          /\ UNCHANGED client
       \/ /\ api_key # <<>>
          /\ client' = ClientOf(i)
          /\ asks' = [asks EXCEPT ![i].pc = "return"]
    /\ UNCHANGED DEFAULT_EMPTY
    /\ PairFrame

\* pipeline.py 28: return client
ClientReturn(i) ==
    /\ asks[i].pc = "return"
    /\ asks' = [asks EXCEPT ![i].pc = "completion", ![i].cli = client]
    /\ UNCHANGED <<client, DEFAULT_EMPTY>>
    /\ PairFrame

\* A variant in which the sentinel goes on to the follow-up suggestions
\* instead of being returned at once
CompletionResultsFillSentinel(i) ==
    IF asks[i].cli = "None"
    THEN { [ReturnsDefault EXCEPT !.ans = WithFollowUps(DEFAULT_EMPTY, asks[i].query)] }
    ELSE { Returns(ModelErrorRecord(<<"APIError">>)) }
         \cup { PlainResult(asks[i].query, text) : text \in PairTexts }

\* pipeline.py 354-398: the results the rest of ask can give
CompletionResults(i) ==
    IF asks[i].cli = "None" THEN { ReturnsDefault }
    ELSE { Returns(ModelErrorRecord(<<"APIError">>)) }
         \cup { PlainResult(asks[i].query, text) : text \in PairTexts }

Completion(i) ==
    /\ asks[i].pc = "completion"
    /\ \E res \in CompletionResults(i) :
         /\ asks' = [asks EXCEPT ![i].pc = "done", ![i].result = res]
         /\ DEFAULT_EMPTY' = SentinelAfter(res)
    /\ UNCHANGED client
    /\ PairFrame

NextPair ==
    \E i \in Callers :
        \/ AskCalled(i)
        \/ ClientCheck(i)
        \/ ClientMake(i)
        \/ ClientReturn(i)
        \/ Completion(i)

SpecPair == InitPair /\ [][NextPair]_vars

\* ------------------------------------------------------------------ the poll loop

\* ask_foundry_agent with a timeout_s its caller chooses.  Each status request
\* returns or raises (httpx.Client(timeout=30.0)) and each turn of the loop
\* sleeps poll_s = 0.6, so a turn of the loop that can be taken is taken and
\* moves the clock on: weak fairness of the loop's two steps
Timeouts == -1..TimeoutTicks

InitPoll ==
    /\ client = "None"
    /\ DEFAULT_EMPTY = OnlyMarkdown(Str(<<"No answer was produced.">>))
    /\ pc = "foundry"
    /\ query \in Queries /\ history \in Histories /\ web_enabled = FALSE /\ mode = "auto"
    /\ vec_id = None /\ model = None
    /\ foundry_ep = <<"id", "/">> /\ foundry_agent = <<"id">> /\ foundry_enabled = TRUE
    /\ chat_model = <<>> /\ vector_store_id = <<>> /\ api_key = <<>>
    /\ now = 0 /\ status = "None" /\ raw_md = <<>>
    /\ fs = "none" /\ web_context = FALSE
    /\ calls = <<>> /\ polls = 0 /\ msg_requests = 0 /\ web_calls = 0
    /\ exc = <<>>
    /\ thread = <<>>
    /\ result = NoResult
    /\ saved = history
    /\ answer = Defaults /\ rendered = None
    /\ message = Msg("assistant", None) /\ extracted = None
    /\ asks = [i \in Callers |-> NotCalled]
    /\ timeout_s \in Timeouts
    /\ NoPage

NextPoll ==
    \/ FoundryBegin
    \/ FoundryCreateRun
    \/ FoundryPoll
    \/ FoundryTimeout
    \/ FoundryMessages
    \/ FoundryAnswer

SpecPoll == InitPoll /\ [][NextPoll]_vars /\ WF_vars(FoundryPoll) /\ WF_vars(FoundryTimeout)

\* ------------------------------------------------------------------ run_query

MaxRuns == 2

\* A turn of the session history and a turn written by append_turn
UiTurn(role, content, meta) == [role |-> role, content |-> content, meta |-> meta]

FileTurn(role, content) == [ts |-> "time.time()", role |-> role, content |-> content]

\* persist.append_turn: load_chat, append, save_chat
AppendTurn(file, role, content) == Append(file, FileTurn(role, content))

\* A variant in which the file is left as it is
SaveChatKeepsFile(file, turns) == file

\* persist.save_chat: the file becomes the turns given
SaveChat(file, turns) == turns

\* A variant that compares the content as typed
SuppressedUntrimmed(q, hist) ==
    \/ Strip(q) = <<>>
    \/ /\ hist # <<>>
       /\ hist[Len(hist)].role = "user"
       /\ hist[Len(hist)].content = q

\* app.py 322-325: the query is blank or repeats the last user turn
Suppressed(q, hist) ==
    \/ Strip(q) = <<>>
    \/ /\ hist # <<>>
       /\ hist[Len(hist)].role = "user"
       /\ Strip(hist[Len(hist)].content) = Strip(q)

\* app.py 337-341
StrictKeys ==
    {"return only", "only the", "only:", "just the", "quote verbatim", "verbatim",
     "exact sentence", "exact line", "ids only", "url only", "nothing else"}

IsStrict(q) == \E i \in 1..Len(q) : Lower(q)[i] \in StrictKeys

LengthChoices == {"Short", "Medium", "Long"}

\* app.py 328-334
ModeForPipeline(choice) ==
    CASE choice = "Short" -> "short" [] choice = "Long" -> "research" [] OTHER -> "long"

\* app.py 343-349: q2
WithLengthNote(q, choice) ==
    IF IsStrict(q) THEN q
    ELSE CASE choice = "Short" ->
                q \o <<"nl", "nl", "(Please answer concisely in 4-7 bullets or ~120-180 words.)">>
           [] choice = "Long" ->
                q \o <<"nl", "nl", "(Provide a comprehensive, board-ready answer with clear sectioning. Be thorough.)">>
           [] OTHER -> q

\* app.py 87: _unescape_newlines
UnescapeNewlines(text) ==
    IF Contains(text, "bsn") /\ ~Contains(text, "nl") THEN Replace(text, "bsn", "nl") ELSE text

\* app.py 119-139: _normalize_to_markdown of a text with no {...} span, for
\* which _find_json_blob returns None
NormalizeToMarkdown(text) == Strip(UnescapeNewlines(StripCodeFences(text)))

\* app.py 141-147
CoerceAnswerToMarkdown(ans) ==
    LET md == NormalizeToMarkdown(AsMarkdown(ans)) IN
    IF md # <<>> THEN md ELSE <<"_No answer produced._">>

\* app.py 369-370: the record made when ask raises
RequestErrorRecord(e) ==
    [Defaults EXCEPT !.raw_markdown =
        Str(<<ErrorHeading, "nl", "Could not complete the request.", "nl", "nl",
              "Details: ">> \o e)]

\* What run_query is called with, and what ask gives it: a record, or an
\* exception (pipeline.py 185-186, 379-381)
Prompts == { <<>>, <<"sp">>, <<"CM5">>, <<"sp", "CM5">>, <<"return only", "sp", "CM5">> }

AskReturns ==
    { [Defaults EXCEPT !.raw_markdown = Str(t)] :
        t \in { <<"ans">>, <<"sp">>, <<"fence", "nl", "ans", "bsn", "alt", "nl", "fence">> } }

AskRaises == { <<"ValidationError">> }

\* The chats a user comes back to at login (app.py 220)
StoredChats ==
    { <<>>,
      << UiTurn("user", <<"CM5">>, <<"09:00">>) >>,
      << UiTurn("user", <<"CM5">>, <<"09:00">>), UiTurn("assistant", <<"ans">>, <<>>) >> }

\* the chat another page of the same user has saved
OtherChat == << UiTurn("user", <<"alt">>, <<"09:05">>), UiTurn("assistant", <<"ans">>, <<>>) >>

InitApp ==
    /\ Resting
    /\ client = "None" /\ api_key = <<>>
    /\ message = Msg("assistant", None) /\ extracted = None
    /\ asks = [i \in Callers |-> NotCalled]
    /\ timeout_s = TimeoutTicks
    /\ chat \in StoredChats
    /\ session = chat
    /\ stage = "idle" /\ prompt = <<>> /\ asked = <<>> /\ runs = 0 /\ last_answer = None

AppFrame ==
    UNCHANGED <<client, DEFAULT_EMPTY, pc, env, foundry, raw_md, fs, web_context, calls,
                web_calls, result, saved, page, extractor, asks, timeout_s>>

\* app.py 321-325: run_query returns at once
RunQuerySuppressed ==
    /\ stage = "idle" /\ runs < MaxRuns
    /\ \E q \in Prompts :
         /\ Suppressed(q, session)
         /\ prompt' = q
    /\ runs' = runs + 1
    /\ UNCHANGED <<session, chat, stage, asked, last_answer>>
    /\ AppFrame

\* app.py 327-367: the user turn is recorded and ask is called
RunQueryBegin ==
    /\ stage = "idle" /\ runs < MaxRuns
    /\ \E q \in Prompts, choice \in LengthChoices :
         /\ ~Suppressed(q, session)
         /\ prompt' = q
         /\ session' = Append(session, UiTurn("user", q, <<"HH:MM">>))
         /\ chat' = SaveChat(AppendTurn(chat, "user", q), session')
         /\ asked' = Append(asked, [query |-> WithLengthNote(q, choice),
                                    history |-> session',
                                    mode_hint |-> ModeForPipeline(choice)])
    /\ stage' = "asking"
    /\ runs' = runs + 1
    /\ UNCHANGED last_answer
    /\ AppFrame

\* app.py 368-375: ask has returned or raised; the assistant turn is recorded
RunQueryEnd ==
    /\ stage = "asking"
    /\ \E ans \in AskReturns \cup { RequestErrorRecord(e) : e \in AskRaises } :
         /\ session' = Append(session, UiTurn("assistant", CoerceAnswerToMarkdown(ans), <<>>))
         /\ chat' = SaveChat(AppendTurn(chat, "assistant", CoerceAnswerToMarkdown(ans)),
                             session')
         /\ last_answer' = ans
    /\ stage' = "idle"
    /\ UNCHANGED <<prompt, asked, runs>>
    /\ AppFrame

\* Another page of the same user saves its own history to the same file
OtherPageSaves ==
    /\ chat # OtherChat
    /\ chat' = SaveChat(chat, OtherChat)
    /\ UNCHANGED <<session, stage, prompt, asked, runs, last_answer>>
    /\ AppFrame

NextApp ==
    \/ RunQuerySuppressed
    \/ RunQueryBegin
    \/ RunQueryEnd
    \/ OtherPageSaves

SpecApp == InitApp /\ [][NextApp]_vars

\* ------------------------------------------------------------------ properties

Backends == [i \in 1..Len(calls) |-> calls[i].backend]

Rank(b) == CASE b = "foundry" -> 1 [] b = "file_search" -> 2 [] b = "plain" -> 3

Called(b) == \E i \in 1..Len(calls) : calls[i].backend = b

Done == pc = "done"

Markdown == OrEmpty(result.ans.raw_markdown)

IsErrorRecord == result.kind = "record" /\ Markdown # <<>> /\ Head(Markdown) = ErrorHeading

IsSentinel == result.kind = "record" /\ Markdown = <<"No answer was produced.">>

\* C1: the backends are invoked in the order managed agent, file search, plain
\* completion, each at most once, and once the agent has returned text or
\* the file search has answered, no later backend is invoked.
C1_BackendOrder ==
    /\ \A i, j \in 1..Len(calls) : i < j => Rank(Backends[i]) < Rank(Backends[j])
    /\ foundry_enabled /\ raw_md # <<>> => Backends = <<"foundry">>
    /\ fs = "answered" => Done /\ ~Called("plain") /\ result.kind = "record"

C1_Witness ==
    /\ Done /\ fs = "answered" /\ api_key # <<>>
    /\ Backends = <<"file_search">>
    /\ Markdown = <<"ans">>

\* C2 (as claimed): ask never raises; whatever the backends do, it returns a record.
C2_NeverRaises == Done => result.kind = "record"

\* C3 (as claimed): ask never returns a record whose raw_markdown is empty or
\* blank, and with no backend invoked it returns the sentinel.
C3_NeverBlank ==
    /\ Done /\ result.kind = "record" => Strip(Markdown) # <<>>
    /\ Done /\ calls = <<>> /\ exc = <<>> => IsSentinel

\* C4: when ask_foundry_agent raises, ask returns an error record and neither
\* the file search nor the plain completion is invoked.
C4_FoundryExclusive ==
    exc # <<>> =>
        /\ foundry_enabled
        /\ Done
        /\ IsErrorRecord
        /\ ~Called("file_search") /\ ~Called("plain")

C4_Witness ==
    /\ Done /\ exc = <<"HTTPStatusError">>
    /\ vec_id = Str(<<"id">>) /\ client = "client"
    /\ Backends = <<"foundry">>

\* C5: the messages of the thread are requested only after a poll returned
\* completed; a failed, cancelled or expired run, or the deadline passing,
\* raises, and no message request is made.
C5_MessagesAfterCompleted ==
    /\ msg_requests > 0 => status = "completed" /\ polls > 0
    /\ status \in Failing => exc = <<"Run ended with status=", status, ": ", "status_obj">> /\ msg_requests = 0
    /\ pc # "foundry_poll" /\ now >= TimeoutTicks =>
           exc = <<"Run timed out after 90.0s (last status=", status, ")">> /\ msg_requests = 0

C5_Witness ==
    /\ Done /\ status = "cancelled" /\ polls = 2 /\ msg_requests = 0
    /\ exc = <<"Run ended with status=", "cancelled", ": ", "status_obj">>

\* C6: a run that fails, is cancelled, expires or times out gives an error
\* record that names the last status: not the sentinel, not a blank record.
C6_RunFailureIsErrorRecord ==
    Done /\ foundry_enabled /\ (status \in Failing \/ now >= TimeoutTicks) =>
        /\ IsErrorRecord
        /\ Contains(Markdown, status)
        /\ result.obj = "fresh"
        /\ ~IsSentinel

C6_Witness ==
    /\ Done /\ foundry_enabled /\ now >= TimeoutTicks /\ status = "in_progress"
    /\ IsErrorRecord

\* C7 (as claimed): a file search that raises, answers with no text or answers
\* with something malformed is no answer: the plain completion is invoked
\* next and no exception leaves ask.
C7_FileSearchNeverFatal ==
    Done /\ Called("file_search") /\ fs # "answered" =>
        Called("plain") /\ result.kind = "record"

Suggestions == result.ans.follow_up_suggestions

\* The six suggestions for a query, written out from the templates
SixFor(q) ==
    LET topic == IF q = <<>> THEN <<"this topic">> ELSE Strip(q) IN
    << <<"What approval thresholds and board oversight apply to ">> \o topic \o <<"?">>,
       <<"Draft a closure checklist for ">> \o topic
           \o <<" with controls and required evidence.">>,
       <<"What fields belong in the monthly board pack for ">> \o topic \o <<"?">>,
       <<"How should breaches/exceptions for ">> \o topic
           \o <<" be escalated and documented?">>,
       <<"What stress-test scenarios are relevant for ">> \o topic
           \o <<" and how to calibrate them?">>,
       <<"What are the key risks, controls, and KRIs for ">> \o topic
           \o <<" (with metrics)?">> >>

\* The suggestions the backend's own text carries
SentSuggestions(text) == IF Contains(text, "J_ok_fu") THEN << <<"alt">> >> ELSE <<>>

IsSub(a, b) == \E i \in 1..(Len(b) + 1), j \in 0..Len(b) : a = SubSeq(b, i, j)

\* A text with no fence and no blank at either end
Clean(t) == t # <<>> /\ ~Contains(t, "fence") /\ Strip(t) = t

\* C8 (as claimed): the sentinel is returned only when no backend remains to
\* try: the plain completion was invoked, or there is no client to invoke it with.
C8_SentinelOnlyAtEndOfChain ==
    Done /\ result.obj = "DEFAULT_EMPTY" => Called("plain") \/ client = "None"

\* C8 (amended): a file search that returns nothing usable is followed by the
\* plain completion; a configured agent that returns no text gives the
\* sentinel with no other backend invoked; the sentinel comes only from an
\* agent without text, from a missing client, or from a blank plain
\* completion of a query that is not strict.
C8_Fallthrough ==
    /\ Done /\ fs \in {"raised", "no_text", "blank"} => Backends = <<"file_search", "plain">>
    /\ Done /\ fs = "error" => result.kind = "raise" /\ Backends = <<"file_search">>
    /\ Done /\ foundry_enabled /\ exc = <<>> /\ raw_md = <<>> =>
           IsSentinel /\ Backends = <<"foundry">>
    /\ Done /\ result.obj = "DEFAULT_EMPTY" =>
           \/ foundry_enabled /\ raw_md = <<>>
           \/ ~foundry_enabled /\ ~Called("plain") /\ client = "None"
           \/ Called("plain") /\ ~Concise(query)

C8_Witness ==
    /\ Done /\ fs = "blank" /\ Backends = <<"file_search", "plain">>
    /\ result.kind = "record" /\ Markdown = <<"CM5">>

\* C9: a strict query gets no synthesized suggestions, whichever backend
\* answered, and a plain text T with nothing to trim comes back as raw_markdown T.
C9_StrictNeverSynthesized ==
    Done /\ Concise(query) /\ result.kind = "record" =>
        /\ Suggestions # SixFor(query)
        /\ Clean(raw_md) /\ BraceAt(raw_md) = {} /\ ~IsErrorRecord => Markdown = raw_md

\* What does hold for a strict query: answered by the plain completion it gets
\* no suggestions, and its raw_markdown is the completion text without the
\* surrounding code fence and blanks ("not found" when nothing is left);
\* answered by the agent or the file search it gets the six suggestions
\* like any other query.
StrictPlain ==
    /\ Done /\ Concise(query) /\ Called("plain") /\ ~IsErrorRecord =>
           /\ result.kind = "record"
           /\ Suggestions = <<>>
           /\ Markdown # <<>> /\ Strip(Markdown) = Markdown
           /\ Markdown = <<"not found">> \/ IsSub(Markdown, raw_md)
           /\ Markdown = <<"not found">> => \A i \in 1..Len(raw_md) : raw_md[i] \in {"sp", "nl", "fence"}
           /\ Clean(raw_md) => Markdown = raw_md
    /\ Done /\ Concise(query) /\ ~Called("plain") /\ result.obj = "fresh" /\ ~IsErrorRecord
          /\ SentSuggestions(raw_md) = <<>> =>
           Suggestions = SixFor(query)

\* C10: a query that is not strict, answered with a non-empty answer, gets the
\* six templated suggestions for its text when the answer carries none, and
\* the answer's own suggestions unchanged when it carries some.
C10_FollowUps ==
    Done /\ ~Concise(query) /\ result.kind = "record" /\ result.obj = "fresh"
         /\ ~IsErrorRecord /\ Strip(Markdown) # <<>> =>
        IF SentSuggestions(raw_md) = <<>>
        THEN Len(Suggestions) = 6 /\ Suggestions = SixFor(query)
        ELSE Suggestions = SentSuggestions(raw_md)

C10_Witness ==
    /\ Done /\ query = <<"sp", "CM5">> /\ fs = "answered" /\ raw_md = <<"J_ok">>
    /\ Len(Suggestions) = 6
    /\ Suggestions[1] = <<"What approval thresholds and board oversight apply to ", "CM5", "?">>

\* A request that tells the backend to answer with a JSON object
AsksForJson(req) ==
    req.schema_msg \/ Contains(req.sys_inst, "Return ONE JSON object with keys:")

\* C11: for a strict query the web search is never called and no request to a
\* backend carries the instruction to answer with a JSON object.
C11_StrictPlainTextOnly ==
    Concise(query) => web_calls = 0 /\ \A i \in 1..Len(calls) : ~AsksForJson(calls[i])

\* What does hold for a strict query: no web search, and no schema message
\* in any request
StrictSkipsWebAndSchemaMsg ==
    Concise(query) => web_calls = 0 /\ \A i \in 1..Len(calls) : ~calls[i].schema_msg

\* C12 (as claimed): a record that begins with the error heading comes only
\* from the managed-agent branch (its configuration or its call).
C12_ErrorsOnlyFromAgent ==
    Done /\ IsErrorRecord => foundry_enabled

\* C12 (amended): a record that begins with the error heading is either the
\* agent branch's record (the agent call raised, or the agent's answer could
\* not be made into a record), with no OpenAI request made, or the record of
\* a plain completion whose call raised; an invocation that ends after the
\* file search without a plain completion never returns an error record.
C12_ErrorRecordSources ==
    /\ Done /\ IsErrorRecord =>
          \/ /\ foundry_enabled
             /\ Markdown[3] = "Azure Foundry agent call failed."
             /\ ~Called("file_search") /\ ~Called("plain")
             /\ exc # <<>> \/ (raw_md # <<>> /\ Normalize(raw_md, raw_md).raised)
          \/ /\ ~foundry_enabled
             /\ Markdown[3] = "Model call failed."
             /\ Backends[Len(Backends)] = "plain"
    /\ Done /\ ~Called("plain") /\ ~foundry_enabled /\ result.kind = "record" => ~IsErrorRecord

C12_Witness ==
    /\ Done /\ ~foundry_enabled /\ fs = "raised" /\ Backends = <<"file_search", "plain">>
    /\ IsErrorRecord /\ Markdown[3] = "Model call failed."

\* The configuration check of ask_foundry_agent has raised
ConfigurationFailed == exc # <<>> /\ exc[1] = "Azure Foundry is not configured: set "

\* C13: when the configuration check fails, ask returns an error record that
\* names a setting exactly when that setting is missing.
C13_ListsExactlyTheMissing ==
    Done /\ ConfigurationFailed =>
        /\ IsErrorRecord /\ ~IsSentinel
        /\ Contains(Markdown, "AI_FOUNDRY_PROJECT_ENDPOINT") <=> Endpoint(foundry_ep) = <<>>
        /\ Contains(Markdown, "AI_FOUNDRY_ASSISTANT_ID") <=> Strip(foundry_agent) = <<>>

\* What does hold: the failed check gives an error record, not the sentinel
\* and not an exception, and the record names both settings.
ConfigurationErrorRecord ==
    Done /\ ConfigurationFailed =>
        /\ IsErrorRecord /\ ~IsSentinel /\ calls = <<>>
        /\ Contains(Markdown, "AI_FOUNDRY_PROJECT_ENDPOINT")
        /\ Contains(Markdown, "AI_FOUNDRY_ASSISTANT_ID")

\* Nothing is configured: no agent settings, no vector store, no API key
NothingConfigured ==
    foundry_ep = <<>> /\ foundry_agent = <<>> /\ vector_store_id = <<>> /\ api_key = <<>>

\* C14 (as claimed): with nothing configured the invocation ends with the
\* sentinel record and no backend called.
C14_UnconfiguredGivesSentinel ==
    Done /\ NothingConfigured => IsSentinel /\ calls = <<>>

\* C14 (amended): with nothing configured and no client kept from an earlier
\* invocation, every step of the invocation calls no backend and makes no
\* client, and the step that ends it returns the DEFAULT_EMPTY object, whose
\* raw_markdown is "No answer was produced.".
C14_NothingConfigured ==
    [][(NothingConfigured /\ client = "None" /\ pc \in {"file_search", "web", "plain"}) =>
          /\ calls' = <<>> /\ client' = "None"
          /\ pc' = "done" =>
                /\ result' = ReturnsDefault
                /\ result'.ans.raw_markdown = Str(<<"No answer was produced.">>)]_vars

C14_Witness ==
    /\ Done /\ NothingConfigured /\ client = "None" /\ web_enabled
    /\ result.obj = "DEFAULT_EMPTY" /\ Markdown = <<"No answer was produced.">> /\ calls = <<>>

\* as_markdown has returned
Rendered == rendered # None

AllBlank(t) == \A i \in 1..Len(t) : IsSpace(t[i])

\* out is raw without the blanks at its two ends
Trimmed(out, raw) ==
    \E i, j \in 1..Len(raw) :
        /\ i <= j /\ out = SubSeq(raw, i, j)
        /\ ~IsSpace(raw[i]) /\ ~IsSpace(raw[j])
        /\ AllBlank(SubSeq(raw, 1, i - 1)) /\ AllBlank(SubSeq(raw, j + 1, Len(raw)))

\* The headings of the structured layout, in the order claimed
Headings ==
    <<"### Summary", "### IFRS", "### AAOIFI", "### CBB", "### InternalPolicy", "### Comparison",
      "### Comparative analysis", "### Recommendation", "### General knowledge",
      "### Gaps / Next steps", "### AI opinion", "### Citations">>

HasHeading(out) == \E i \in 1..Len(Headings) : Contains(out, Headings[i])

\* C15 (as claimed): a non-empty raw_markdown is returned verbatim.
C15_RawMarkdownVerbatim ==
    Rendered /\ OrEmpty(answer.raw_markdown) # <<>> => rendered.s = answer.raw_markdown.s

\* C15 (amended): a raw_markdown that holds more than blanks is returned without
\* the blanks at its ends, whatever the structured fields hold; a raw_markdown
\* that is absent, empty or blank leaves the output to the structured fields.
C15_RawMarkdownWins ==
    Rendered =>
        IF ~AllBlank(OrEmpty(answer.raw_markdown))
        THEN Trimmed(rendered.s, answer.raw_markdown.s) /\ ~HasHeading(rendered.s)
        ELSE /\ answer.summary # <<>> => Contains(rendered.s, "### Summary")
             /\ answer.citations # <<>> => Contains(rendered.s, "### Citations")
             /\ ~Contains(rendered.s, "ans")
             /\ rendered.s = <<>> <=> Parts(answer) = <<>>

C15_Witness ==
    /\ Rendered /\ answer.raw_markdown = Str(<<"sp", "ans", "nl">>)
    /\ answer.summary = <<"text">> /\ answer.citations # <<>>
    /\ rendered.s = <<"ans">>

\* The content of the i-th section of the structured layout is not empty
HasContent(a, i) ==
    CASE i = 1 -> a.summary # <<>>
      [] i \in 2..5 -> /\ Frameworks[i - 1] \in DOMAIN a.per_source
                       /\ \/ OrEmpty(a.per_source[Frameworks[i - 1]].notes) # <<>>
                          \/ a.per_source[Frameworks[i - 1]].quotes # <<>>
      [] i = 6 -> OrEmpty(a.comparison_table_md) # <<>>
      [] i = 7 -> a.comparative_analysis # <<>>
      [] i = 8 -> a.recommendation # <<>>
      [] i = 9 -> a.general_knowledge # <<>>
      [] i = 10 -> a.gaps_or_next_steps # <<>>
      [] i = 11 -> a.ai_opinion # <<>>
      [] i = 12 -> a.citations # <<>>

Position(out, t) == CHOOSE k \in 1..Len(out) : out[k] = t

InOrder(out) ==
    \A i, j \in 1..Len(Headings) :
        i < j /\ Contains(out, Headings[i]) /\ Contains(out, Headings[j]) =>
            Position(out, Headings[i]) < Position(out, Headings[j])

\* C16: in the structured layout a heading is emitted exactly for the sections
\* whose content is not empty, and the headings keep the fixed order.
C16_EmptySectionsOmitted ==
    Rendered /\ AllBlank(OrEmpty(answer.raw_markdown)) =>
        /\ \A i \in 1..Len(Headings) : Contains(rendered.s, Headings[i]) <=> HasContent(answer, i)
        /\ InOrder(rendered.s)

\* What does hold: a framework's heading is emitted exactly when the framework
\* is a key of per_source, the other headings exactly when their field is not
\* empty, and the headings keep the fixed order.
HeadingsOfPresentFields ==
    Rendered /\ AllBlank(OrEmpty(answer.raw_markdown)) =>
        /\ \A i \in 1..Len(Headings) :
              Contains(rendered.s, Headings[i]) <=>
                  IF i \in 2..5 THEN Frameworks[i - 1] \in DOMAIN answer.per_source
                  ELSE HasContent(answer, i)
        /\ InOrder(rendered.s)

\* The agent's run has been created and its answer is not yet made
RunInFlight == pc \in {"foundry_poll", "foundry_messages", "foundry_answer"}

\* C17: no backend is called twice in one invocation, at most two are called,
\* and while the agent's run is in flight no other backend has been called;
\* a weak, empty or error answer is returned as it is.
C17_NoRetry ==
    /\ \A i, j \in 1..Len(calls) : i # j => calls[i].backend # calls[j].backend
    /\ Len(calls) <= 2
    /\ RunInFlight => Backends = <<"foundry">>
    /\ Done /\ result.kind = "record" /\ Weak(result.ans, query) => Len(calls) <= 2

C17_Witness ==
    /\ Done /\ fs = "blank" /\ Backends = <<"file_search", "plain">>
    /\ IsSentinel /\ Weak(result.ans, query)

\* C18: from the call to the return, the history ask was given and the chat the
\* caller has persisted stay as they were at the call, on every path.
C18_HistoryReadOnly ==
    /\ [](pc # "idle" => history = saved /\ history \in Histories)
    /\ [][pc # "idle" /\ pc' # "idle" => history' = history /\ saved' = saved]_vars

C18_Witness ==
    /\ Done /\ history # <<>> /\ history = saved
    /\ Backends = <<"file_search", "plain">>
    /\ Contains(calls[1].text, "Assistant: ") /\ Contains(calls[2].text, "Assistant: ")

\* The model names ask can send when the model argument is absent
ModelsWhenAbsent == {ChatModel(None, e, None) : e \in ModelEnvValues}

\* C19: a model argument that is blank selects the model that an absent one
\* selects: every request to an OpenAI backend names one of those models.
C19_BlankModelIsAbsent ==
    AllBlank(OrEmpty(model)) =>
        \A i \in 1..Len(calls) :
            calls[i].backend # "foundry" => calls[i].model \in ModelsWhenAbsent

\* The assistant messages of the thread: those whose role is assistant, else
\* those whose role holds the word in any case
Assistants ==
    LET exact == {i \in 1..Len(thread) : thread[i].role = "assistant"}
    IN IF exact # {} THEN exact
       ELSE {i \in 1..Len(thread) : thread[i].role \in {"assistant", "Assistant"}}

Newest(S) == CHOOSE i \in S : \A j \in S : thread[j].created_at <= thread[i].created_at

\* C20: after a completed run the text handed to ask is that of the assistant
\* message created last, wherever the service lists it, and the empty string
\* when the thread has no assistant message.
C20_NewestAssistantMessage ==
    pc = "foundry_answer" =>
        IF Assistants = {} THEN raw_md = <<>>
        ELSE raw_md = Strip(OrEmpty(thread[Newest(Assistants)].content))

\* What does hold: the text is that of the assistant message listed first
FirstListedAssistantMessage ==
    pc = "foundry_answer" =>
        IF Assistants = {} THEN raw_md = <<>>
        ELSE raw_md = Strip(OrEmpty(thread[First(Assistants)].content))

\* The message the extractor was called on, and its parts when it is a list
Content == message.content

Extracted == extracted # None

CarriesNothing(part) ==
    part.k # "dict" \/ (part.text.k = "none" /\ part.value.k = "none" /\ part.content.k = "none")

NothingTextLike ==
    \/ Content.k = "none"
    \/ Content.k \notin {"str", "list"}
    \/ Content.k = "list" /\ \A i \in 1..Len(Content.items) : CarriesNothing(Content.items[i])

\* C21: the extractor never fails, and returns the empty string when the
\* content is absent, is a mapping or another value that is neither a string
\* nor a sequence, is an empty sequence, or is a sequence whose parts carry no
\* text, value or content.
C21_EmptyWhenNothingTextLike ==
    Extracted => extracted.k = "str" /\ (NothingTextLike => extracted.s = <<>>)

\* What holds: a content that is neither a string nor a list comes back as
\* its str(), and the other cases of C21 give the empty string
EmptyOrStrOfContent ==
    Extracted =>
        /\ extracted.k = "str"
        /\ Content.k \notin {"none", "str", "list"} => extracted.s = Strip(PyStr(Content))
        /\ Content.k \in {"none", "list"} /\ NothingTextLike => extracted.s = <<>>

Recognised(part) == part.k = "dict" /\ part.type \in TextKinds

HasText(part) == Recognised(part) /\ IsTrue(TextOf(part))

HasGeneric(part) == part.k = "dict" /\ IsTrue(Generic(part))

\* The fragment the i-th part gives: its text when its type is a text kind,
\* else its value or content when no part before it has given a fragment
Fragment(parts, i) ==
    IF HasText(parts[i]) THEN Strip(PyStr(TextOf(parts[i])))
    ELSE IF HasGeneric(parts[i])
            /\ \A j \in 1..(i - 1) : ~HasText(parts[j]) /\ ~HasGeneric(parts[j])
         THEN Strip(PyStr(Generic(parts[i])))
    ELSE <<>>

Fragments(parts) ==
    SelectSeq([i \in 1..Len(parts) |-> Fragment(parts, i)], LAMBDA c : c # <<>>)

\* C22: for a list of parts the extractor returns the non-empty text fragments
\* of the parts whose type is a text kind, in the order of the parts, joined by
\* a blank line and stripped; a part's value or content key gives a fragment
\* only while no fragment has been accumulated.
C22_FragmentsInOrder ==
    Extracted /\ Content.k = "list" =>
        extracted.s = Strip(JoinLines(Fragments(Content.items), <<"nl", "nl">>))

\* two text parts are joined in order and the value of a later part is left out
C22_Witness ==
    /\ Extracted /\ Content.k = "list" /\ Len(Content.items) = 3
    /\ HasText(Content.items[1]) /\ HasText(Content.items[2])
    /\ ~HasText(Content.items[3]) /\ HasGeneric(Content.items[3])
    /\ extracted.s = <<"ans", "nl", "nl", "alt">>

\* The object recovered from the text the answer was made of, when that text
\* went through _parse_json and the schema refused the object
Recovered == ParseJson(raw_md)

ValidationFailed ==
    /\ Done /\ raw_md # <<>>
    /\ ~(Called("plain") /\ Concise(query))
    /\ Recovered.keys # {} /\ ~Validates(Recovered)

RecoveredOnly ==
    /\ result.kind = "record" /\ ~IsErrorRecord
    /\ result.ans.summary = <<>> /\ result.ans.per_source = "none"
    /\ \/ result.ans.raw_markdown = RecoveredMarkdown(Recovered)
       \/ Strip(OrEmpty(RecoveredMarkdown(Recovered))) = <<>> /\ IsSentinel

\* C23 (as claimed): on every backend path an object that fails validation
\* becomes a record holding only the object's raw_markdown, every other field
\* at its default; the failure reaches the caller neither as an error record
\* nor as an exception.
C23_ValidationFailureRecovered == ValidationFailed => RecoveredOnly

\* What holds: the recovery succeeds when the object's raw_markdown is a
\* string or is absent
RecoveredWhenMarkdownIsText ==
    ValidationFailed /\ Get(Recovered, "raw_markdown").k \in {"str", "none"} => RecoveredOnly

\* The sentinel as schema.py 76 makes it
Pristine == OnlyMarkdown(Str(<<"No answer was produced.">>))

\* The results an invocation with query q can have when no other runs
Alone(q) ==
    LET sentinel == [kind |-> "record", ans |-> Pristine, obj |-> "DEFAULT_EMPTY"] IN
    IF api_key = <<>> THEN { sentinel }
    ELSE { sentinel, Returns(ModelErrorRecord(<<"APIError">>)) }
         \cup { IF PlainResult(q, text).obj = "DEFAULT_EMPTY" THEN sentinel
                 ELSE PlainResult(q, text) : text \in PairTexts }

Finished(i) == asks[i].pc = "done"

\* C24 (as claimed): two invocations share no mutable state: neither holds a
\* value that the other wrote, and each gets a result it could get alone.
C24_NoSharedState ==
    /\ \A i \in Callers : asks[i].cli \in {"None", ClientOf(i)}
    /\ \A i \in Callers : Finished(i) => asks[i].result \in Alone(asks[i].query)

\* C24 (amended): the invocations share the cached client, which either may
\* write and both read, and the sentinel, which none writes; a client is held
\* only when the key is set, and in every interleaving each invocation gets a
\* result it could get alone.
C24_SharedClientOnly ==
    /\ DEFAULT_EMPTY = Pristine
    /\ \A i \in Callers : asks[i].cli # "None" => api_key # <<>> /\ client # "None"
    /\ client # "None" => api_key # <<>>
    /\ \A i \in Callers : Finished(i) => asks[i].result \in Alone(asks[i].query)

\* both construct a client, the second overwrites the first's, and the first
\* caller answers through the second's client
C24_Witness ==
    /\ Finished(1) /\ Finished(2)
    /\ client = ClientOf(2) /\ asks[1].cli = ClientOf(2) /\ asks[2].cli = ClientOf(2)
    /\ asks[1].query # asks[2].query
    /\ asks[1].result.kind = "record" /\ asks[1].result.obj = "fresh"
    /\ asks[1].result.ans.follow_up_suggestions = FollowUps(asks[1].query)
    /\ asks[2].result.obj = "DEFAULT_EMPTY"

\* C25: ask never modifies the sentinel: whatever invocations have run, its
\* raw_markdown is "No answer was produced." and its follow_up_suggestions is
\* empty; follow-up suggestions are assigned only to records made inside the
\* invocation, and a returned sentinel is the sentinel as it was made.
C25_SentinelNeverModified ==
    /\ DEFAULT_EMPTY.raw_markdown = Str(<<"No answer was produced.">>)
    /\ DEFAULT_EMPTY.follow_up_suggestions = <<>>
    /\ result.kind = "record" /\ result.ans.follow_up_suggestions # <<>> => result.obj = "fresh"
    /\ result.obj = "DEFAULT_EMPTY" => result.ans = Pristine

\* a later invocation, through the client an earlier one made, gets a blank
\* completion for a query that takes suggestions, and returns the sentinel
C25_Witness ==
    /\ Done /\ client # "None" /\ api_key = <<>>
    /\ Backends = <<"plain">> /\ raw_md # <<>> /\ Strip(raw_md) = <<>>
    /\ ~Concise(query) /\ query # <<>>
    /\ result.obj = "DEFAULT_EMPTY" /\ result.ans = DEFAULT_EMPTY

\* C26: the poll loop ends: the function leaves the loop, to read the
\* messages or with an exception, even when every status is non-terminal; no
\* status request is issued once the deadline has passed; and with a timeout
\* of zero or less the loop raises the timeout error without any request.
C26_PollLoopEnds ==
    /\ (pc = "foundry_poll") ~> (pc \in {"foundry_messages", "done"})
    /\ [][polls' # polls => now < timeout_s]_vars
    /\ [][pc = "foundry_poll" /\ timeout_s <= 0 =>
            pc' = "done" /\ polls' = 0 /\ exc' = TimedOut]_vars

\* every status request found the run queued, up to the deadline
C26_Witness ==
    /\ Done /\ timeout_s = TimeoutTicks /\ polls = TimeoutTicks /\ now = timeout_s
    /\ status = "queued" /\ exc = TimedOut /\ msg_requests = 0

\* a timeout of zero: the timeout error with no status request
ZeroTimeoutRaisesAtOnce ==
    /\ Done /\ timeout_s = 0 /\ polls = 0 /\ status = "None"
    /\ exc = <<"Run timed out after ", "0", "s (last status=", "None", ")">>

\* The query of the latest call is blank, or the history ended with a user turn
\* holding the same text up to surrounding whitespace
BlankPrompt(q) == \A i \in 1..Len(q) : IsSpace(q[i])

Repeats(q, hist) ==
    /\ hist # <<>>
    /\ hist[Len(hist)].role = "user"
    /\ Strip(hist[Len(hist)].content) = Strip(q)

\* C27: a run_query whose query is blank, or repeats the last turn when that is
\* a user turn, does nothing: ask is not called, and the session history and
\* the chat file stay as they are.
C27_SuppressedDoesNothing ==
    [][runs' # runs /\ (BlankPrompt(prompt') \/ Repeats(prompt', session)) =>
          /\ session' = session /\ chat' = chat
          /\ asked' = asked /\ stage' = stage /\ last_answer' = last_answer]_vars

\* the query " CM5" came after the user turn "CM5" and nothing was asked
C27_Witness ==
    /\ runs = 1 /\ stage = "idle" /\ asked = <<>>
    /\ prompt = <<"sp", "CM5">>
    /\ session = << UiTurn("user", <<"CM5">>, <<"09:00">>) >>
    /\ chat = session

Grown(old, new, role) ==
    /\ Len(new) = Len(old) + 1
    /\ SubSeq(new, 1, Len(old)) = old
    /\ new[Len(new)].role = role

====
